---- MODULE Spec2Model ----
(***************************************************************************)
(* Model of model::BufferLevel (src/model/buffer.cpp): the capacity        *)
(* pre-check, the access/capacity evaluator with its sparse tile-size      *)
(* estimation, the energy composers and the performance composer of one    *)
(* storage level.                                                          *)
(*                                                                         *)
(* Numbers.  uint64 values are naturals; doubles are exact extended        *)
(* rationals [n |-> numerator, d |-> denominator] kept in lowest terms,    *)
(* with d = 0 for the two IEEE specials the code can produce from          *)
(* non-negative operands: [n |-> 1, d |-> 0] is +inf and                   *)
(* [n |-> 0, d |-> 0] is NaN.  Rounding error of doubles is not modelled.  *)
(***************************************************************************)
EXTENDS Integers, Naturals, Sequences, FiniteSets, TLC

\* ------------------------------------------------------------------------
\* Evaluation helpers
\* ------------------------------------------------------------------------

\* F applied to the value of v: v is evaluated once, as an assignment to a
\* local variable evaluates its right-hand side once.
Let(v, F(_)) == CHOOSE r \in {F(x) : x \in {v}} : TRUE

Let2(u, v, F(_, _)) == CHOOSE r \in {F(x, y) : x \in {u}, y \in {v}} : TRUE

\* ------------------------------------------------------------------------
\* Integer helpers
\* ------------------------------------------------------------------------

Min(a, b) == Let2(a, b, LAMBDA x, y : IF x <= y THEN x ELSE y)

Max(a, b) == Let2(a, b, LAMBDA x, y : IF x >= y THEN x ELSE y)

RECURSIVE Gcd(_, _)
Gcd(a, b) == IF b = 0 THEN a ELSE Let(a % b, LAMBDA r : Gcd(b, r))

\* ceil(a / b) for naturals a and b > 0
CeilDiv(a, b) == Let2(a, b, LAMBDA x, y : (x + y - 1) \div y)

\* Stand-in for the 2^64 modulus of std::uint64_t arithmetic (TLC's
\* integers are 32 bits wide); every modelled quantity is far below it.
U64Modulus == 2^16

\* a - b in unsigned arithmetic
SubU64(a, b) == (a - b) % U64Modulus

\* ------------------------------------------------------------------------
\* Doubles as extended rationals
\* ------------------------------------------------------------------------

Rat(n, d) ==
  Let2(n, d, LAMBDA x, y :
    IF y = 0 THEN [n |-> IF x = 0 THEN 0 ELSE 1, d |-> 0]
    ELSE Let(Gcd(x, y), LAMBDA g : [n |-> x \div g, d |-> y \div g]))

RInt(k) == [n |-> k, d |-> 1]

RZero == RInt(0)

ROne == RInt(1)

RIsNaN(a) == Let(a, LAMBDA x : x.n = 0 /\ x.d = 0)

RIsInf(a) == Let(a, LAMBDA x : x.n # 0 /\ x.d = 0)

RIsFinite(a) == a.d # 0

RMul(a, b) == Let2(a, b, LAMBDA x, y : Rat(x.n * y.n, x.d * y.d))

RDiv(a, b) == Let2(a, b, LAMBDA x, y : Rat(x.n * y.d, x.d * y.n))

RAdd(a, b) ==
  Let2(a, b, LAMBDA x, y :
    IF RIsInf(x) /\ RIsInf(y) THEN x
    ELSE Rat(x.n * y.d + y.n * x.d, x.d * y.d))

\* 1 - a for a finite a in [0, 1]
ROneMinus(a) == Let(a, LAMBDA x : Rat(x.d - x.n, x.d))

\* a < b on doubles: false as soon as one side is NaN
RLess(a, b) ==
  Let2(a, b, LAMBDA x, y :
    /\ ~RIsNaN(x)
    /\ ~RIsNaN(y)
    /\ IF RIsInf(x) THEN FALSE
       ELSE IF RIsInf(y) THEN TRUE
       ELSE x.n * y.d < y.n * x.d)

RLeq(a, b) ==
  Let2(a, b, LAMBDA x, y :
    /\ ~RIsNaN(x)
    /\ ~RIsNaN(y)
    /\ IF RIsInf(y) THEN TRUE
       ELSE IF RIsInf(x) THEN FALSE
       ELSE x.n * y.d <= y.n * x.d)

\* std::min(a, b) is (b < a) ? b : a
RMin(a, b) == Let2(a, b, LAMBDA x, y : IF RLess(y, x) THEN y ELSE x)

\* ceil of a finite non-negative double, as a natural
RCeil(a) == Let(a, LAMBDA x : CeilDiv(x.n, x.d))

\* truncation of a finite non-negative double, as a natural
RTrunc(a) == Let(a, LAMBDA x : x.n \div x.d)

\* ------------------------------------------------------------------------
\* Workload shape and attributes
\* ------------------------------------------------------------------------

\* problem::GetShape()->NumDataSpaces
NumDataSpaces == 2

DataSpaces == 1 .. NumDataSpaces

\* problem::GetShape()->IsReadWriteDataSpace: the last dataspace is the
\* read-write one
IsReadWriteDataSpace(pv) == pv = NumDataSpaces

\* An Attribute<T> that IsSpecified() is false for
Unspecified == -1

\* An unset attribute whose values are doubles
RUnspecified == [n |-> 0, d |-> -1]

\* tiling::storageOperationTypes
DataOps ==
  {"random_read", "random_fill", "random_update",
   "gated_read", "gated_fill", "gated_update",
   "skipped_read", "skipped_fill", "skipped_update"}

MetaDataOps ==
  {"metadata_read", "metadata_fill", "metadata_update",
   "gated_metadata_read", "gated_metadata_fill", "gated_metadata_update"}

CountOps == {"decompression_count", "compression_count"}

StorageOps == DataOps \cup MetaDataOps \cup CountOps

\* ------------------------------------------------------------------------
\* Density model collaborator (tile[pvi].tile_density, workload->GetDensity)
\*
\* A density model is a record
\*   [user_defined_knob, user_confidence, expected, confidences, quantile,
\*    fits]
\* confidences is an increasing sequence of confidence levels, quantile[i]
\* the density not exceeded with confidence confidences[i] (non-decreasing
\* in i), and fits[i] the smallest capacity at which the model reports
\* confidence confidences[i] (non-decreasing in i, fits[1] = 0).
\* ------------------------------------------------------------------------

GetTileExpectedDensity(dm, size) == dm.expected

GetUserDefinedConfidence(dm) == dm.user_confidence

\* the highest confidence level whose capacity threshold the capacity meets
GetTileConfidence(dm, size, capacity) ==
  LET ok == {i \in DOMAIN dm.fits : dm.fits[i] <= capacity}
      top == CHOOSE i \in ok : \A j \in ok : j <= i
  IN dm.confidences[top]

\* the density at the lowest confidence level that is at least `confidence`
GetTileDensityByConfidence(dm, size, confidence, capacity) ==
  LET ok == {i \in DOMAIN dm.confidences : RLeq(confidence, dm.confidences[i])}
      low == CHOOSE i \in ok : \A j \in ok : i <= j
  IN dm.quantile[low]

\* ------------------------------------------------------------------------
\* Sparse tile-size estimation (BufferLevel::ComputeAccesses, step 1)
\* ------------------------------------------------------------------------

GetMetaDataTileSize(t, tile_density) ==
  IF t.metadata_format = "bitmask" THEN t.size
  ELSE IF t.metadata_format = "RLE" THEN RCeil(RMul(RInt(t.size), tile_density))
  ELSE IF t.metadata_format = "CSR"
    THEN RTrunc(RAdd(RInt(t.dense_rank1_fills),
                     RMul(RInt(t.dense_rank0_fills), tile_density)))
  ELSE 0

\* Faulty variant: the quotient is truncated, not rounded up.
EquivalentMetaDataTileSizeTruncated(sp, metadata_tile_size) ==
  (metadata_tile_size * sp.metadata_word_bits) \div sp.word_bits

\* ceil((double) metadata_tile_size * metadata_word_bits / word_bits)
EquivalentMetaDataTileSize(sp, metadata_tile_size) ==
  CeilDiv(metadata_tile_size * sp.metadata_word_bits, sp.word_bits)

\* ceil(tmp_metadata_tile_size * metadata_word_bits / word_bits) of the
\* tightening loop: the operands are all integers, so the quotient is
\* already truncated when ceil sees it
LoopEquivalentMetaDataTileSize(sp, metadata_tile_size) ==
  (metadata_tile_size * sp.metadata_word_bits) \div sp.word_bits

\* compressed tile size: ceil(size * density)
CompressedTileSize(t, density) == RCeil(RMul(RInt(t.size), density))

\* total_tile_size: the capacity-sharing weight over all dataspaces
RECURSIVE TotalTileSize(_, _, _)
TotalTileSize(sp, tile, n) ==
  IF n = 0 THEN 0
  ELSE TotalTileSize(sp, tile, n - 1) + tile[n].size
       + EquivalentMetaDataTileSize(sp,
           GetMetaDataTileSize(tile[n],
             GetTileExpectedDensity(tile[n].tile_density, tile[n].size)))

\* Faulty variant: the share is rounded up, not down.
AllocatedEffectiveBufferSizeRoundedUp(sp, t, e, total_tile_size) ==
  IF total_tile_size # 0
  THEN CeilDiv(sp.effective_size * (t.size + e), total_tile_size)
  ELSE sp.effective_size

\* allocated_effective_buffer_size; e is the equivalent metadata size at
\* the expected density.  The quotient is an integer division.
AllocatedEffectiveBufferSize(sp, t, e, total_tile_size) ==
  IF total_tile_size # 0
  THEN (sp.effective_size * (t.size + e)) \div total_tile_size
  ELSE sp.effective_size

\* One estimate of (confidence, density, compressed size, metadata size)
\* for a capacity handed to the density model.
EstimateAt(t, capacity) ==
  Let(GetTileConfidence(t.tile_density, t.size, capacity), LAMBDA conf :
  Let(GetTileDensityByConfidence(t.tile_density, t.size, conf, capacity),
      LAMBDA dens :
    [tile_confidence      |-> conf,
     stored_data_density  |-> dens,
     compressed_tile_size |-> CompressedTileSize(t, dens),
     metadata_tile_size   |-> GetMetaDataTileSize(t, dens)]))

\* The loop guard: updated + compressed <= 0.99 * allocated, and the
\* metadata-equivalent estimate still moving.
LoopGuard(s, allocated) ==
  /\ 100 * (s.updated + s.est.compressed_tile_size) <= 99 * allocated
  /\ s.updated # s.equivalent

\* One iteration of the tightening loop.  s = [equivalent, updated, est].
LoopBody(sp, t, allocated, s) ==
  Let(EstimateAt(t, SubU64(allocated, s.updated)), LAMBDA tmp :
  Let(LoopEquivalentMetaDataTileSize(sp, tmp.metadata_tile_size), LAMBDA upd0 :
    LET equivalent == s.updated
        upd == IF upd0 + tmp.compressed_tile_size > allocated
               THEN equivalent ELSE upd0
    IN [equivalent |-> equivalent,
        updated    |-> upd,
        est        |-> IF upd # equivalent THEN tmp ELSE s.est]))

\* The while loop.  The body is a function of s.updated alone, so the loop
\* runs forever exactly when a value of `updated` comes back at the loop
\* head; seen holds the values the body has already been run with.
\* at = [s, seen, iterations].
RECURSIVE TighteningLoop(_, _, _, _)
TighteningLoop(sp, t, allocated, at) ==
  IF ~LoopGuard(at.s, allocated)
  THEN [outcome |-> "ok", s |-> at.s, iterations |-> at.iterations]
  ELSE IF at.s.updated \in at.seen
  THEN [outcome |-> "hang", s |-> at.s, iterations |-> at.iterations]
  ELSE Let([s          |-> LoopBody(sp, t, allocated, at.s),
            seen       |-> at.seen \cup {at.s.updated},
            iterations |-> at.iterations + 1],
           LAMBDA next : TighteningLoop(sp, t, allocated, next))

\* Compressed tensor, no user knob, finite effective size.  Returns the
\* committed estimate `est`, the outcome of the code path ("ok", "assert"
\* when one of the two assertions fails, "hang" when the loop never exits),
\* the allocated share, whether the conservative retry ran, how many loop
\* iterations ran and whether a capacity handed to the density model was a
\* wrapped-around difference.
ShareEstimate(sp, t, total_tile_size) ==
  Let(EquivalentMetaDataTileSize(sp,
        GetMetaDataTileSize(t, GetTileExpectedDensity(t.tile_density, t.size))),
      LAMBDA equiv0 :
  Let(AllocatedEffectiveBufferSize(sp, t, equiv0, total_tile_size),
      LAMBDA allocated :
  Let(EstimateAt(t, SubU64(allocated, equiv0)), LAMBDA est1 :
  Let(EquivalentMetaDataTileSize(sp, est1.metadata_tile_size), LAMBDA equiv1 :
    LET overshoot == /\ equiv1 + est1.compressed_tile_size > allocated
                     /\ est1.tile_confidence # RZero
        Path(outcome, est, iters, wrapped) ==
          [outcome |-> outcome, est |-> est, allocated |-> allocated,
           retried |-> overshoot, iterations |-> iters, wrapped |-> wrapped]
        wrapped2 == equiv0 > allocated \/ equiv1 + 1 > allocated
    IN IF ~overshoot
       THEN Path("ok", est1, 0, equiv0 > allocated)
       ELSE
  Let(EstimateAt(t, SubU64(SubU64(allocated, equiv1), 1)), LAMBDA est2 :
  Let(EquivalentMetaDataTileSize(sp, est2.metadata_tile_size), LAMBDA upd2 :
       IF ~(upd2 + est2.compressed_tile_size <= allocated)
       THEN Path("assert", est2, 0, wrapped2)
       ELSE
  Let(TighteningLoop(sp, t, allocated,
        [s |-> [equivalent |-> equiv1, updated |-> upd2, est |-> est2],
         seen |-> {}, iterations |-> 0]),
      LAMBDA loop :
       IF loop.outcome = "hang"
       THEN Path("hang", loop.s.est, loop.iterations, wrapped2)
       ELSE IF loop.s.updated + loop.s.est.compressed_tile_size <= allocated
       THEN Path("ok", loop.s.est, loop.iterations, wrapped2)
       ELSE Path("assert", loop.s.est, loop.iterations, wrapped2))))))))

\* Faulty variant: an uncompressed tensor carries metadata of its own size
\* for every metadata format, not for the bitmask alone.
TileEstimateMetadataForAllFormats(sp, t, total_tile_size) ==
  LET Direct(conf, dens, compressed_tile_size, metadata_tile_size) ==
        [outcome |-> "ok",
         est |-> [tile_confidence      |-> conf,
                  stored_data_density  |-> dens,
                  compressed_tile_size |-> compressed_tile_size,
                  metadata_tile_size   |-> metadata_tile_size],
         allocated |-> 0, retried |-> FALSE, iterations |-> 0,
         wrapped |-> FALSE]
      Sized(conf, dens) ==
        Direct(conf, dens, CompressedTileSize(t, dens),
               GetMetaDataTileSize(t, dens))
  IN IF ~t.compressed
     THEN Direct(ROne, ROne, t.size,
                 IF t.metadata_format # "none" THEN t.size ELSE 0)
     ELSE IF t.tile_density.user_defined_knob
     THEN Sized(GetUserDefinedConfidence(t.tile_density),
                GetTileDensityByConfidence(
                  t.tile_density, t.size,
                  GetUserDefinedConfidence(t.tile_density), 0))
     ELSE IF sp.effective_size # Unspecified
     THEN ShareEstimate(sp, t, total_tile_size)
     ELSE Sized(ROne, GetTileExpectedDensity(t.tile_density, t.size))

\* Faulty variant: on a level without a size the density is the one the
\* density model gives at confidence 1, not the expected density.
TileEstimateUnboundedAtFullConfidence(sp, t, total_tile_size) ==
  LET Direct(conf, dens) ==
        [outcome |-> "ok",
         est |-> [tile_confidence      |-> conf,
                  stored_data_density  |-> dens,
                  compressed_tile_size |-> CompressedTileSize(t, dens),
                  metadata_tile_size   |-> GetMetaDataTileSize(t, dens)],
         allocated |-> 0, retried |-> FALSE, iterations |-> 0,
         wrapped |-> FALSE]
  IN IF t.compressed
     THEN IF t.tile_density.user_defined_knob
          THEN LET conf == GetUserDefinedConfidence(t.tile_density)
               IN Direct(conf, GetTileDensityByConfidence(t.tile_density,
                                                          t.size, conf, 0))
          ELSE IF sp.effective_size # Unspecified
          THEN ShareEstimate(sp, t, total_tile_size)
          ELSE Direct(ROne, GetTileDensityByConfidence(t.tile_density,
                                                       t.size, ROne, 0))
     ELSE [outcome |-> "ok",
           est |-> [tile_confidence      |-> ROne,
                    stored_data_density  |-> ROne,
                    compressed_tile_size |-> t.size,
                    metadata_tile_size   |-> IF t.metadata_format = "bitmask"
                                             THEN t.size ELSE 0],
           allocated |-> 0, retried |-> FALSE, iterations |-> 0,
           wrapped |-> FALSE]

\* The estimate of one tensor: user knob, share of a finite level,
\* unbounded level, or no compression.
TileEstimate(sp, t, total_tile_size) ==
  LET Direct(conf, dens) ==
        [outcome |-> "ok",
         est |-> [tile_confidence      |-> conf,
                  stored_data_density  |-> dens,
                  compressed_tile_size |-> CompressedTileSize(t, dens),
                  metadata_tile_size   |-> GetMetaDataTileSize(t, dens)],
         allocated |-> 0, retried |-> FALSE, iterations |-> 0,
         wrapped |-> FALSE]
  IN IF t.compressed
     THEN IF t.tile_density.user_defined_knob
          THEN LET conf == GetUserDefinedConfidence(t.tile_density)
               IN Direct(conf, GetTileDensityByConfidence(t.tile_density,
                                                          t.size, conf, 0))
          ELSE IF sp.effective_size # Unspecified
          THEN ShareEstimate(sp, t, total_tile_size)
          ELSE Direct(ROne, GetTileExpectedDensity(t.tile_density, t.size))
     ELSE [outcome |-> "ok",
           est |-> [tile_confidence      |-> ROne,
                    stored_data_density  |-> ROne,
                    compressed_tile_size |-> t.size,
                    metadata_tile_size   |-> IF t.metadata_format = "bitmask"
                                             THEN t.size ELSE 0],
           allocated |-> 0, retried |-> FALSE, iterations |-> 0,
           wrapped |-> FALSE]

\* ------------------------------------------------------------------------
\* BufferLevel::ComputeAccesses
\* ------------------------------------------------------------------------

\* std::accumulate over a per-dataspace table of naturals
RECURSIVE SumOver(_, _)
SumOver(f, n) == IF n = 0 THEN 0 ELSE SumOver(f, n - 1) + f[n]

\* PerDataSpace::Max()
RECURSIVE MaxOver(_, _)
MaxOver(f, n) == IF n = 1 THEN f[1] ELSE Max(MaxOver(f, n - 1), f[n])

\* ceil(log2(range)) for range >= 1
RECURSIVE CeilLog2From(_, _)
CeilLog2From(range, b) == IF 2^b >= range THEN b ELSE CeilLog2From(range, b + 1)

\* static_cast<unsigned long>(ceil(log2(address_range))): log2(0) is -inf,
\* whose conversion to an unsigned integer is undefined; ub is what the
\* build at hand produces for such a conversion.
AddrGenBits(address_range, ub) ==
  IF address_range = 0 THEN ub ELSE CeilLog2From(address_range, 0)

\* The first dataspace (in loop order) whose estimate does not complete,
\* or 0 when all complete.
FirstStuck(est) ==
  IF \A pv \in DataSpaces : est[pv].outcome = "ok" THEN 0
  ELSE CHOOSE pv \in DataSpaces :
         /\ est[pv].outcome # "ok"
         /\ \A q \in DataSpaces : q < pv => est[q].outcome = "ok"

\* Faulty variant: the minimum-utilization branch is missing.
CapacityReasonNoMinimum(sp, total_utilized_capacity) ==
  IF sp.size = Unspecified THEN <<>>
  ELSE IF total_utilized_capacity > sp.effective_size
  THEN <<"exceeds buffer capacity">>
  ELSE <<>>

\* Faulty variant: a mapping that fills the level exactly is rejected.
CapacityReasonExclusive(sp, total_utilized_capacity) ==
  IF sp.size = Unspecified THEN <<>>
  ELSE IF total_utilized_capacity >= sp.effective_size
  THEN <<"exceeds buffer capacity">>
  ELSE IF total_utilized_capacity * sp.min_utilization.d
          < sp.effective_size * sp.min_utilization.n
  THEN <<"less than minimum utilization">>
  ELSE <<>>

\* Step 2, capacity: what the validation writes to the reason stream
CapacityReason(sp, total_utilized_capacity) ==
  IF sp.size = Unspecified THEN <<>>
  ELSE IF total_utilized_capacity > sp.effective_size
  THEN <<"exceeds buffer capacity">>
  ELSE IF total_utilized_capacity * sp.min_utilization.d
          < sp.effective_size * sp.min_utilization.n
  THEN <<"less than minimum utilization">>
  ELSE <<>>

\* Step 2, instances: what the validation writes to the reason stream
InstancesReason(sp, utilized_instances) ==
  IF sp.instances = Unspecified THEN <<>>
  ELSE IF MaxOver(utilized_instances, NumDataSpaces) > sp.instances
  THEN <<"exceeds available hardware instances">>
  ELSE <<>>

\* Returns [outcome, specs, stats, is_evaluated, success, fail_reason, path].
\* outcome is "ok" when the call returns, "assert" when an assertion stops
\* the program and "hang" when the tightening loop never exits.
\* fail_reason is the sequence of messages written to the reason stream.
ComputeAccesses(lv, tile, mask) ==
  Let(TotalTileSize(lv.specs, tile, NumDataSpaces), LAMBDA total_tile_size :
  Let([pv \in DataSpaces |->
         TileEstimate(lv.specs, tile[pv], total_tile_size)], LAMBDA est :
  Let([pv \in DataSpaces |->
         est[pv].est.compressed_tile_size
         + EquivalentMetaDataTileSize(lv.specs,
                                      est[pv].est.metadata_tile_size)],
      LAMBDA utilized_capacity :
  Let(SumOver(utilized_capacity, NumDataSpaces),
      LAMBDA total_utilized_capacity :
  LET sp == lv.specs
      stuck == FirstStuck(est)
      content_ok == \A pv \in DataSpaces :
                      (tile[pv].size = 0) = (tile[pv].content_accesses = 0)
      utilized_instances == [pv \in DataSpaces |-> tile[pv].replication_factor]
      address_range ==
        IF sp.size # Unspecified THEN sp.size \div sp.block_size
        ELSE total_utilized_capacity \div sp.block_size
      fail_reason == CapacityReason(sp, total_utilized_capacity)
                     \o InstancesReason(sp, utilized_instances)
      success == fail_reason = <<>>
      num_clusters == sp.instances \div sp.cluster_size
      stats ==
        [lv.stats EXCEPT
           !.keep = mask,
           !.partition_size = [pv \in DataSpaces |-> tile[pv].partition_size],
           !.tile_size = [pv \in DataSpaces |-> tile[pv].size],
           !.tile_confidence =
              [pv \in DataSpaces |-> est[pv].est.tile_confidence],
           !.compressed_tile_size =
              [pv \in DataSpaces |-> est[pv].est.compressed_tile_size],
           !.metadata_tile_size =
              [pv \in DataSpaces |-> est[pv].est.metadata_tile_size],
           !.tile_max_density =
              [pv \in DataSpaces |-> est[pv].est.stored_data_density],
           !.utilized_capacity = utilized_capacity,
           !.utilized_instances = utilized_instances,
           !.reads = [pv \in DataSpaces |-> tile[pv].reads],
           !.updates = [pv \in DataSpaces |-> tile[pv].updates],
           !.fills = [pv \in DataSpaces |-> tile[pv].fills],
           !.temporal_reductions =
              [pv \in DataSpaces |-> tile[pv].temporal_reductions],
           !.address_generations =
              [pv \in DataSpaces |->
                 IF IsReadWriteDataSpace(pv)
                 THEN tile[pv].updates + tile[pv].fills
                 ELSE tile[pv].reads + tile[pv].fills],
           !.metadata_reads = [pv \in DataSpaces |-> tile[pv].metadata_reads],
           !.metadata_fills = [pv \in DataSpaces |-> tile[pv].metadata_fills],
           !.metadata_updates =
              [pv \in DataSpaces |-> tile[pv].metadata_updates],
           !.fine_grained_accesses =
              [pv \in DataSpaces |-> tile[pv].fine_grained_accesses],
           !.utilized_clusters =
              [pv \in DataSpaces |-> Min(utilized_instances[pv], num_clusters)]]
      path == [pv \in DataSpaces |->
                 [outcome    |-> est[pv].outcome,
                  allocated  |-> est[pv].allocated,
                  retried    |-> est[pv].retried,
                  iterations |-> est[pv].iterations,
                  wrapped    |-> est[pv].wrapped]]
  IN IF stuck # 0
     THEN [outcome |-> est[stuck].outcome, specs |-> sp, stats |-> lv.stats,
           is_evaluated |-> lv.is_evaluated, success |-> FALSE,
           fail_reason |-> <<>>, path |-> path]
     ELSE IF ~content_ok
     THEN [outcome |-> "assert", specs |-> sp, stats |-> lv.stats,
           is_evaluated |-> lv.is_evaluated, success |-> FALSE,
           fail_reason |-> <<>>, path |-> path]
     ELSE [outcome |-> "ok",
           specs |-> [sp EXCEPT !.addr_gen_bits =
                                   AddrGenBits(address_range, lv.build.ub_cast)],
           stats |-> stats,
           is_evaluated |-> success,
           success |-> success,
           fail_reason |-> fail_reason,
           path |-> path]))))

\* ------------------------------------------------------------------------
\* Energy composers
\* ------------------------------------------------------------------------

\* Conversion of a double to std::uint64_t.  Converting a NaN or an
\* infinity is undefined: ub is what the build at hand produces for it.
CastU64(x, ub) == Let(x, LAMBDA v : IF RIsFinite(v) THEN RTrunc(v) ELSE ub)

\* ceil of a double, converted to std::uint64_t
CeilU64(x, ub) == Let(x, LAMBDA v : IF RIsFinite(v) THEN RCeil(v) ELSE ub)

\* pat::AdderEnergy(bits_a, bits_b): grows with the wider operand
AdderEnergy(bits_a, bits_b) == RInt(Max(bits_a, bits_b))

\* sum of term[op] over a set of operation names, as the code's loop over
\* tiling::storageOperationTypes accumulates it
RECURSIVE RSum(_, _)
RSum(ops, term) ==
  IF ops = {} THEN RZero
  ELSE Let(CHOOSE o \in ops : TRUE, LAMBDA op :
       Let(ops \ {op}, LAMBDA rest : RAdd(term[op], RSum(rest, term))))

\* Faulty variant: a last, partly filled vector is not counted.
VectorAccessesTruncated(n, block_size) == n \div block_size

\* (n % b == 0) ? n / b : n / b + 1
VectorAccesses(n, block_size) ==
  IF n % block_size = 0 THEN n \div block_size ELSE (n \div block_size) + 1

\* cluster_access_energy of one dataspace, before the speculation correction
ClusterAccessEnergy(sp, st, t, pv) ==
  LET instance_accesses == st.reads[pv] + st.updates[pv] + st.fills[pv]
      vector_accesses == VectorAccesses(instance_accesses, sp.block_size)
      instance_metadata_accesses ==
        st.metadata_reads[pv] + st.metadata_fills[pv] + st.metadata_updates[pv]
      metadata_vector_accesses ==
        VectorAccesses(instance_metadata_accesses, sp.metadata_block_size)
  IN Let([op \in StorageOps |->
            IF op \in DataOps
            THEN IF instance_accesses # 0
                 THEN RMul(Rat(vector_accesses * t.fine_grained_accesses[op],
                               instance_accesses),
                           sp.op_energy_map[op])
                 ELSE RZero
            ELSE IF op \in MetaDataOps
            THEN IF instance_metadata_accesses # 0
                 THEN RMul(Rat(metadata_vector_accesses
                                 * t.fine_grained_accesses[op],
                               instance_metadata_accesses),
                           sp.op_energy_map[op])
                 ELSE RZero
            ELSE RMul(RInt(t.fine_grained_accesses[op]), sp.op_energy_map[op])],
         LAMBDA term : RSum(StorageOps, term))

\* parent_level of a tile that has no parent level
NoParent == -1

\* One dataspace of ComputeBufferEnergy: the fields it writes.
BufferEnergyOf(lv, t, pv) ==
  Let(ClusterAccessEnergy(lv.specs, lv.stats, t, pv), LAMBDA raw :
  LET sp == lv.specs
      st == lv.stats
      instance_accesses == st.reads[pv] + st.updates[pv] + st.fills[pv]
      parent_level_name ==
        IF t.parent_level # NoParent THEN t.parent_level_name ELSE ""
      speculate == st.tile_confidence[pv] # ROne /\ parent_level_name # ""
      parent_scalar_read_energy ==
        RDiv(t.parent_level_op_energy, RInt(t.parent_level_block_size))
      child_scalar_read_energy ==
        RDiv(sp.op_energy_map["random_read"], RInt(sp.block_size))
      cluster_access_energy ==
        IF speculate THEN RMul(raw, st.tile_confidence[pv]) ELSE raw
      cluster_utilization ==
        Rat(st.utilized_instances[pv], st.utilized_clusters[pv])
  IN
  Let(IF speculate
      THEN CeilU64(RMul(RMul(raw, ROneMinus(st.tile_confidence[pv])),
                        RDiv(parent_scalar_read_energy,
                             child_scalar_read_energy)),
                   lv.build.ub_cast)
      ELSE 0,
      LAMBDA cluster_speculation_energy_cost :
  Let(RDiv(RAdd(cluster_access_energy, RInt(cluster_speculation_energy_cost)),
           cluster_utilization),
      LAMBDA energy :
     IF st.utilized_instances[pv] > 0
     THEN [parent_level_name |-> parent_level_name,
           speculation_energy_cost |->
             RDiv(RInt(cluster_speculation_energy_cost), cluster_utilization),
           energy |-> energy,
           energy_per_access |-> RDiv(energy, RInt(instance_accesses))]
     ELSE [parent_level_name |-> parent_level_name,
           speculation_energy_cost |-> st.speculation_energy_cost[pv],
           energy |-> RZero,
           energy_per_access |-> RZero])))

ComputeBufferEnergy(lv, tile) ==
  Let([pv \in DataSpaces |-> BufferEnergyOf(lv, tile[pv], pv)], LAMBDA e :
    [lv EXCEPT
        !.stats.parent_level_name =
           [pv \in DataSpaces |-> e[pv].parent_level_name],
        !.stats.speculation_energy_cost =
           [pv \in DataSpaces |-> e[pv].speculation_energy_cost],
        !.stats.energy = [pv \in DataSpaces |-> e[pv].energy],
        !.stats.energy_per_access =
           [pv \in DataSpaces |-> e[pv].energy_per_access]])

\* Faulty variant: the reduction energy is added to what the record held.
ComputeReductionEnergyAccumulating(lv) ==
  [lv EXCEPT !.stats.temporal_reduction_energy =
     [pv \in DataSpaces |->
        IF IsReadWriteDataSpace(pv)
        THEN RAdd(lv.stats.temporal_reduction_energy[pv],
                  RMul(RInt(lv.stats.temporal_reductions[pv]),
                       AdderEnergy(lv.specs.word_bits,
                                   lv.specs.update_word_bits)))
        ELSE RZero]]

ComputeReductionEnergy(lv) ==
  [lv EXCEPT !.stats.temporal_reduction_energy =
     [pv \in DataSpaces |->
        IF IsReadWriteDataSpace(pv)
        THEN RMul(RInt(lv.stats.temporal_reductions[pv]),
                  AdderEnergy(lv.specs.word_bits, lv.specs.update_word_bits))
        ELSE RZero]]

\* Faulty variant: an override of 0 counts as no override.
ComputeAddrGenEnergyZeroIsUnset(lv) ==
  [lv EXCEPT !.stats.addr_gen_energy =
     [pv \in DataSpaces |->
        IF lv.specs.addr_gen_energy.n <= 0
        THEN RMul(RInt(lv.stats.address_generations[pv]),
                  AdderEnergy(lv.specs.addr_gen_bits, lv.specs.addr_gen_bits))
        ELSE RMul(RInt(lv.stats.address_generations[pv]),
                  lv.specs.addr_gen_energy)]]

ComputeAddrGenEnergy(lv) ==
  [lv EXCEPT !.stats.addr_gen_energy =
     [pv \in DataSpaces |->
        IF lv.specs.addr_gen_energy.n < 0
        THEN RMul(RInt(lv.stats.address_generations[pv]),
                  AdderEnergy(lv.specs.addr_gen_bits, lv.specs.addr_gen_bits))
        ELSE RMul(RInt(lv.stats.address_generations[pv]),
                  lv.specs.addr_gen_energy)]]

\* ------------------------------------------------------------------------
\* BufferLevel::ComputePerformance
\* ------------------------------------------------------------------------

\* std::accumulate over a per-dataspace table of doubles, from 0.0
RECURSIVE RSumOver(_, _)
RSumOver(f, n) == IF n = 0 THEN RZero ELSE RAdd(RSumOver(f, n - 1), f[n])

\* A bandwidth cap: RUnspecified, or a double
CapBinds(cap, demand) == cap # RUnspecified /\ RLess(cap, demand)

\* Faulty variant: the write cap replaces the slowdown of the read cap
\* instead of being combined with it by min.
SlowdownLastCapWins(sp, total_read, total_write) ==
  IF CapBinds(sp.write_bandwidth, total_write)
  THEN RDiv(sp.write_bandwidth, total_write)
  ELSE IF CapBinds(sp.read_bandwidth, total_read)
  THEN RDiv(sp.read_bandwidth, total_read)
  ELSE ROne

Slowdown(sp, total_read, total_write) ==
  Let2(total_read, total_write, LAMBDA read, write :
  Let(IF CapBinds(sp.read_bandwidth, read)
      THEN RMin(ROne, RDiv(sp.read_bandwidth, read))
      ELSE ROne,
      LAMBDA s1 :
    IF CapBinds(sp.write_bandwidth, write)
    THEN RMin(s1, RDiv(sp.write_bandwidth, write))
    ELSE s1))

ComputePerformance(lv, compute_cycles) ==
  Let([pv \in DataSpaces |-> Rat(lv.stats.reads[pv], compute_cycles)],
      LAMBDA unconstrained_read_bandwidth :
  Let([pv \in DataSpaces |->
         Rat(lv.stats.updates[pv] + lv.stats.fills[pv], compute_cycles)],
      LAMBDA unconstrained_write_bandwidth :
  Let(Slowdown(lv.specs,
               RSumOver(unconstrained_read_bandwidth, NumDataSpaces),
               RSumOver(unconstrained_write_bandwidth, NumDataSpaces)),
      LAMBDA slowdown :
    [lv EXCEPT
        !.stats.slowdown = slowdown,
        !.stats.read_bandwidth =
           [pv \in DataSpaces |->
              RMul(slowdown, unconstrained_read_bandwidth[pv])],
        !.stats.write_bandwidth =
           [pv \in DataSpaces |->
              RMul(slowdown, unconstrained_write_bandwidth[pv])],
        !.stats.cycles =
           CeilU64(RDiv(RInt(compute_cycles), slowdown), lv.build.ub_cast)])))

\* ------------------------------------------------------------------------
\* BufferLevel::Evaluate and BufferLevel::PreEvaluationCheck
\* ------------------------------------------------------------------------

\* Faulty variant: a level that was evaluated once stays evaluated.
EvaluateKeepingFlag(lv, in) ==
  Let(ComputeAccesses(lv, in.tile, in.mask), LAMBDA ca :
  Let([lv EXCEPT !.specs = ca.specs, !.stats = ca.stats,
                 !.is_evaluated = lv.is_evaluated \/ ca.is_evaluated],
      LAMBDA lv1 :
    LET computed == ~in.break_on_failure \/ ca.success
        Return(level) ==
          [outcome |-> ca.outcome,
           level |-> level,
           success |-> ca.success,
           fail_reason |-> ca.fail_reason,
           computed |-> ca.outcome = "ok" /\ computed,
           path |-> ca.path]
    IN IF ca.outcome # "ok" THEN Return(lv)
       ELSE IF ~computed THEN Return(lv1)
       ELSE Return(ComputePerformance(
                     ComputeAddrGenEnergy(
                       ComputeReductionEnergy(
                         ComputeBufferEnergy(lv1, in.tile))),
                     in.compute_cycles))))

\* Faulty variant: the composers run whatever the evaluator returned.
EvaluateAlwaysComposing(lv, in) ==
  Let(ComputeAccesses(lv, in.tile, in.mask), LAMBDA ca :
  Let([lv EXCEPT !.specs = ca.specs, !.stats = ca.stats,
                 !.is_evaluated = ca.is_evaluated], LAMBDA lv1 :
    LET Return(level) ==
          [outcome |-> ca.outcome,
           level |-> level,
           success |-> ca.success,
           fail_reason |-> ca.fail_reason,
           computed |-> ca.outcome = "ok"
                        /\ (~in.break_on_failure \/ ca.success),
           path |-> ca.path]
    IN IF ca.outcome # "ok" THEN Return(lv)
       ELSE
  Let(ComputeBufferEnergy(lv1, in.tile), LAMBDA lv2 :
  Let(ComputeReductionEnergy(lv2), LAMBDA lv3 :
  Let(ComputeAddrGenEnergy(lv3), LAMBDA lv4 :
  Let(ComputePerformance(lv4, in.compute_cycles), LAMBDA lv5 :
       Return(lv5)))))))

\* in = [tile, mask, compute_cycles, break_on_failure].  Returns the level
\* after the call with the call's outcome and returned status.
Evaluate(lv, in) ==
  Let(ComputeAccesses(lv, in.tile, in.mask), LAMBDA ca :
  Let([lv EXCEPT !.specs = ca.specs, !.stats = ca.stats,
                 !.is_evaluated = ca.is_evaluated], LAMBDA lv1 :
    LET computed == ~in.break_on_failure \/ ca.success
        Return(level) ==
          [outcome |-> ca.outcome,
           level |-> level,
           success |-> ca.success,
           fail_reason |-> ca.fail_reason,
           computed |-> ca.outcome = "ok" /\ computed,
           path |-> ca.path]
    IN IF ca.outcome # "ok" THEN Return(lv)
       ELSE IF ~computed THEN Return(lv1)
       ELSE
  Let(ComputeBufferEnergy(lv1, in.tile), LAMBDA lv2 :
  Let(ComputeReductionEnergy(lv2), LAMBDA lv3 :
  Let(ComputeAddrGenEnergy(lv3), LAMBDA lv4 :
  Let(ComputePerformance(lv4, in.compute_cycles), LAMBDA lv5 :
       Return(lv5)))))))

\* required_capacity of the pre-check: the masked dataspaces only
RECURSIVE RequiredCapacity(_, _, _, _)
RequiredCapacity(working_set_sizes, mask, density, n) ==
  IF n = 0 THEN 0
  ELSE RequiredCapacity(working_set_sizes, mask, density, n - 1)
       + (IF mask[n]
          THEN RCeil(RMul(RInt(working_set_sizes[n]),
                          GetTileExpectedDensity(density[n],
                                                 working_set_sizes[n])))
          ELSE 0)

\* Faulty variant: the multicast factor is left out.
AvailableCapacityOneInstance(sp) == sp.effective_size

\* available_capacity: the loose filter of a level whose read network can
\* do a distributed multicast
AvailableCapacity(sp) ==
  IF sp.multicast THEN sp.effective_size * sp.instances
  ELSE sp.effective_size

\* Faulty variant: the test whether the size is specified is missing.
PreEvaluationReasonUnguarded(sp, required_capacity) ==
  Let(required_capacity, LAMBDA required :
    IF required > sp.effective_size
    THEN <<"exceeds buffer capacity">>
    ELSE IF required * sp.min_utilization.d
            < sp.effective_size * sp.min_utilization.n
    THEN <<"less than minimum utilization">>
    ELSE <<>>)

\* Faulty variant: a working set that fills the level exactly is rejected.
PreEvaluationReasonNoExactFit(sp, required_capacity) ==
  Let(required_capacity, LAMBDA required :
    IF sp.size = Unspecified THEN <<>>
    ELSE IF required >= sp.effective_size * (IF sp.multicast
                                             THEN sp.instances ELSE 1)
    THEN <<"exceeds buffer capacity">>
    ELSE IF required * sp.min_utilization.d
            < sp.effective_size * sp.min_utilization.n
    THEN <<"less than minimum utilization">>
    ELSE <<>>)

\* What the pre-check writes to its reason stream for a required capacity
PreEvaluationReason(sp, required_capacity) ==
  Let(required_capacity, LAMBDA required :
    IF sp.size = Unspecified THEN <<>>
    ELSE IF required > AvailableCapacity(sp)
    THEN <<"exceeds buffer capacity">>
    ELSE IF required * sp.min_utilization.d
            < sp.effective_size * sp.min_utilization.n
    THEN <<"less than minimum utilization">>
    ELSE <<>>)

\* in = [working_set_sizes, mask, density]; density[pv] is the workload's
\* density model of dataspace pv.  Returns the status alone: the function
\* writes to no member of the level.
PreEvaluationCheck(lv, in) ==
  Let(PreEvaluationReason(lv.specs,
        RequiredCapacity(in.working_set_sizes, in.mask, in.density,
                         NumDataSpaces)),
      LAMBDA fail_reason :
        [success |-> fail_reason = <<>>, fail_reason |-> fail_reason])

\* ------------------------------------------------------------------------
\* The accessors of the Result Record (STAT_ACCESSOR) and of the level
\* ------------------------------------------------------------------------

StorageEnergy(lv, pv) ==
  RMul(lv.stats.energy[pv], RInt(lv.stats.utilized_instances[pv]))

TemporalReductionEnergy(lv, pv) ==
  RMul(lv.stats.temporal_reduction_energy[pv],
       RInt(lv.stats.utilized_instances[pv]))

\* Faulty variant: address generation is charged per instance.
AddrGenEnergyPerInstance(lv, pv) ==
  RMul(lv.stats.addr_gen_energy[pv], RInt(lv.stats.utilized_instances[pv]))

\* clusters, not instances
AddrGenEnergy(lv, pv) ==
  RMul(lv.stats.addr_gen_energy[pv], RInt(lv.stats.utilized_clusters[pv]))

Energy(lv, pv) ==
  RAdd(RAdd(StorageEnergy(lv, pv), TemporalReductionEnergy(lv, pv)),
       AddrGenEnergy(lv, pv))

Size(lv) == RInt(lv.specs.size)

\* the products utilized_capacity * utilized_instances are unsigned
\* integers, added to a double one by one
RECURSIVE UtilizedCapacityTimesInstances(_, _)
UtilizedCapacityTimesInstances(lv, n) ==
  IF n = 0 THEN RZero
  ELSE RAdd(UtilizedCapacityTimesInstances(lv, n - 1),
            RInt((lv.stats.utilized_capacity[n]
                  * lv.stats.utilized_instances[n]) % U64Modulus))

CapacityUtilization(lv) ==
  RDiv(UtilizedCapacityTimesInstances(lv, NumDataSpaces),
       RMul(Size(lv), RInt(lv.specs.instances)))

\* ------------------------------------------------------------------------
\* Construction: BufferLevel::ParseSpecs, ValidateTopology,
\* PopulateEnergyPerOp and the constructor
\* ------------------------------------------------------------------------

\* pat::DRAMEnergy(bits), pat::SRAMEnergy and pat::SRAMArea(height, width,
\* banks, ports): the technology tables
DRAMEnergy(bits) == RInt(4 * bits)

SRAMEnergy(height, width, num_banks, num_ports) == RInt(height + width)

SRAMArea(height, width, num_banks, num_ports) == RInt(height * width)

\* Specs::kDefaultWordBits
kDefaultWordBits == 16

\* A configuration node: every key is Unspecified or holds a value.

\* An unsigned division by zero: the processor traps on some builds; on
\* others the quotient is 0, and so the remainder is the dividend.
Divides(divisor, dividend) ==
  IF divisor = 0 THEN dividend = 0 ELSE dividend % divisor = 0

Quotient(dividend, divisor) ==
  IF divisor = 0 THEN 0 ELSE dividend \div divisor

\* ValidateTopology without the divisibility assertions
ValidateTopologyUnchecked(instances, meshX, meshY, div0) ==
  LET Ok(i, x, y) == [outcome |-> "ok", instances |-> i, meshX |-> x, meshY |-> y]
      Stop(how) == [outcome |-> how, instances |-> instances,
                    meshX |-> meshX, meshY |-> meshY]
  IN IF instances # Unspecified
     THEN IF meshX # Unspecified
          THEN IF meshY # Unspecified
               THEN IF meshX * meshY = instances
                    THEN Ok(instances, meshX, meshY) ELSE Stop("assert")
               ELSE IF meshX = 0 /\ div0 = "trap" THEN Stop("trap")
               ELSE Ok(instances, meshX, Quotient(instances, meshX))
          ELSE IF meshY # Unspecified
          THEN IF meshY = 0 /\ div0 = "trap" THEN Stop("trap")
               ELSE Ok(instances, Quotient(instances, meshY), meshY)
          ELSE Ok(instances, instances, 1)
     ELSE IF meshX # Unspecified
     THEN IF meshY # Unspecified
          THEN Ok(meshX * meshY, meshX, meshY)
          ELSE Stop("exit")
     ELSE Stop("exit")

\* ValidateTopology(specs): "assert", "exit", "trap" (a division by zero
\* on a build of kind div0 = "trap"), or the completed topology.
ValidateTopology(instances, meshX, meshY, div0) ==
  LET Ok(i, x, y) == [outcome |-> "ok", instances |-> i, meshX |-> x, meshY |-> y]
      Stop(how) == [outcome |-> how, instances |-> instances,
                    meshX |-> meshX, meshY |-> meshY]
  IN IF instances # Unspecified
     THEN IF meshX # Unspecified
          THEN IF meshY # Unspecified
               THEN IF meshX * meshY = instances
                    THEN Ok(instances, meshX, meshY) ELSE Stop("assert")
               ELSE IF meshX = 0 /\ div0 = "trap" THEN Stop("trap")
               ELSE IF Divides(meshX, instances)
                    THEN Ok(instances, meshX, Quotient(instances, meshX))
                    ELSE Stop("assert")
          ELSE IF meshY # Unspecified
          THEN IF meshY = 0 /\ div0 = "trap" THEN Stop("trap")
               ELSE IF Divides(meshY, instances)
               THEN Ok(instances, Quotient(instances, meshY), meshY)
               ELSE Stop("assert")
          ELSE Ok(instances, instances, 1)
     ELSE IF meshX # Unspecified
     THEN IF meshY # Unspecified
          THEN Ok(meshX * meshY, meshX, meshY)
          ELSE Stop("exit")
     ELSE Stop("exit")

\* BufferLevel::PopulateEnergyPerOp: the random data actions default to the
\* vector access energy, every other action to 0; an ERT entry overrides.
PopulateEnergyPerOp(vector_access_energy, ERT_entries) ==
  [op \in StorageOps |->
     IF op \in DOMAIN ERT_entries THEN ERT_entries[op]
     ELSE IF op \in {"random_read", "random_fill", "random_update"}
     THEN vector_access_energy
     ELSE RZero]

\* BufferLevel::ParseSpecs(level, n_elements) followed by the constructor
\* and PopulateEnergyPerOp.  c holds the configured attributes, the
\* properties of the connected networks and the ERT entries.
ParseSpecs(c, bld) ==
  LET word_bits == IF c.word_bits # Unspecified THEN c.word_bits
                   ELSE kDefaultWordBits
      block_size == IF c.block_size # Unspecified THEN c.block_size ELSE 1
      \* the code assigns the local block_size, which holds the configured
      \* block size or, when none is configured, whatever the stack held
      metadata_block_size ==
        IF c.metadata_block_size # Unspecified
        THEN IF c.block_size # Unspecified THEN c.block_size
             ELSE c.uninitialized_block_size
        ELSE 1
      metadata_word_bits ==
        IF c.metadata_datawidth # Unspecified THEN c.metadata_datawidth ELSE 0
      width_ok == \/ c.cluster_size # Unspecified
                  \/ c.width = Unspecified
                  \/ c.width % (word_bits * block_size) = 0
      cluster_size ==
        IF c.cluster_size # Unspecified THEN c.cluster_size
        ELSE IF c.width # Unspecified
        THEN c.width \div (word_bits * block_size)
        ELSE 1
      size == c.entries
      effective_size ==
        IF size # Unspecified
        THEN (size * c.multiple_buffering.d) \div c.multiple_buffering.n
        ELSE Unspecified
      min_util_ok == c.min_utilization = RZero \/ effective_size # Unspecified
      instances == IF c.instances # Unspecified THEN c.instances
                   ELSE c.n_elements
      topo == ValidateTopology(instances, c.meshX, c.meshY, bld.div0)
      dram_ok == c.technology # "DRAM" \/ cluster_size = 1
      height == IF size = Unspecified THEN 0
                ELSE VectorAccesses(size, block_size)
      width == word_bits * block_size * cluster_size
      tech_energy ==
        IF c.technology = "DRAM" THEN DRAMEnergy(word_bits * block_size)
        ELSE IF size = 0 THEN RZero
        ELSE RDiv(SRAMEnergy(height, width, c.num_banks, c.num_ports),
                  RInt(cluster_size))
      tech_area ==
        IF c.technology = "DRAM" THEN RZero
        ELSE IF size = 0 THEN RZero
        ELSE RDiv(SRAMArea(height, width, c.num_banks, c.num_ports),
                  RInt(cluster_size))
      vector_access_energy ==
        IF c.vector_access_energy # RUnspecified THEN c.vector_access_energy
        ELSE tech_energy
      storage_area ==
        IF c.cluster_area # RUnspecified /\ RLess(RZero, c.cluster_area)
        THEN RDiv(c.cluster_area, RInt(cluster_size))
        ELSE tech_area
  IN [outcome |-> IF ~width_ok \/ ~min_util_ok \/ ~dram_ok THEN "assert"
                  ELSE topo.outcome,
      specs |->
        [technology |-> c.technology,
         size |-> size,
         effective_size |-> effective_size,
         multiple_buffering |-> c.multiple_buffering,
         min_utilization |-> c.min_utilization,
         word_bits |-> word_bits,
         block_size |-> block_size,
         metadata_word_bits |-> metadata_word_bits,
         metadata_block_size |-> metadata_block_size,
         cluster_size |-> cluster_size,
         num_banks |-> c.num_banks,
         num_ports |-> c.num_ports,
         instances |-> topo.instances,
         meshX |-> topo.meshX,
         meshY |-> topo.meshY,
         read_bandwidth |-> c.read_bandwidth,
         write_bandwidth |-> c.write_bandwidth,
         vector_access_energy |-> vector_access_energy,
         storage_area |-> storage_area,
         addr_gen_energy |-> IF c.addr_gen_energy # RUnspecified
                             THEN c.addr_gen_energy
                             ELSE [n |-> -1, d |-> 10],
         addr_gen_bits |-> Unspecified,
         op_energy_map |-> PopulateEnergyPerOp(vector_access_energy,
                                               c.ERT_entries),
         multicast |-> c.multicast,
         update_word_bits |-> c.update_word_bits]]

\* The Result Record of a freshly constructed level
InitStats ==
  LET Zero == [pv \in DataSpaces |-> 0]
      RZeros == [pv \in DataSpaces |-> RZero]
  IN [keep |-> [pv \in DataSpaces |-> FALSE],
      partition_size |-> Zero,
      tile_size |-> Zero,
      tile_confidence |-> RZeros,
      compressed_tile_size |-> Zero,
      metadata_tile_size |-> Zero,
      tile_max_density |-> RZeros,
      utilized_capacity |-> Zero,
      utilized_instances |-> Zero,
      utilized_clusters |-> Zero,
      reads |-> Zero,
      updates |-> Zero,
      fills |-> Zero,
      temporal_reductions |-> Zero,
      address_generations |-> Zero,
      metadata_reads |-> Zero,
      metadata_fills |-> Zero,
      metadata_updates |-> Zero,
      fine_grained_accesses |->
        [pv \in DataSpaces |-> [op \in StorageOps |-> 0]],
      parent_level_name |-> [pv \in DataSpaces |-> ""],
      speculation_energy_cost |-> RZeros,
      energy |-> RZeros,
      energy_per_access |-> RZeros,
      temporal_reduction_energy |-> RZeros,
      addr_gen_energy |-> RZeros,
      read_bandwidth |-> RZeros,
      write_bandwidth |-> RZeros,
      slowdown |-> RZero,
      cycles |-> 0]

\* ------------------------------------------------------------------------
\* Bounds and the inputs drawn from them
\* ------------------------------------------------------------------------

\* Largest tile and working-set size, in elements
MaxTile == 4

\* Largest access count of a tile
MaxAccesses == 2

\* the largest compute_cycles of a call
MaxCycles == 2

Half == Rat(1, 2)

Quarter == Rat(1, 4)

\* the confidence levels of the density models used
Confidences == <<RZero, Half, ROne>>

DensityModel(expected, quantile, fits) ==
  [user_defined_knob |-> FALSE, user_confidence |-> ROne,
   expected |-> expected, confidences |-> Confidences,
   quantile |-> quantile, fits |-> fits]

\* every tile is full
DenseModel == DensityModel(ROne, <<ROne, ROne, ROne>>, <<0, 0, 0>>)

\* half the elements are expected; the quantiles are reported at the
\* smallest capacity that holds 1, 2 and 4 elements
ExactModel == DensityModel(Half, <<Quarter, Half, ROne>>, <<0, 2, 4>>)

\* the confidence is pinned by the user
KnobModel(confidence) ==
  [ExactModel EXCEPT !.user_defined_knob = TRUE, !.user_confidence = confidence]

\* nothing fits below confidence 1/2 : the zero-confidence density is 1/2
FloorModel == DensityModel(Half, <<Half, Rat(3, 4), ROne>>, <<0, 3, 5>>)

\* reports a confidence only when a slack of two elements is left over
SlackModel == DensityModel(Quarter, <<Half, Rat(3, 4), ROne>>, <<0, 5, 6>>)

\* a tile that is empty half of the time and holds three elements of four
\* otherwise: the confidence is 1 once three elements fit
StepModel == DensityModel(Rat(3, 8), <<RZero, RZero, Rat(3, 4)>>, <<0, 0, 3>>)

NoOps == [op \in StorageOps |-> 0]

\* A tile descriptor (tiling::DataMovementInfo) of dataspace pv with
\* `accesses` reads, fills and (read-write dataspace) updates; an empty
\* tile has no accesses.
Tile(pv, size, compressed, metadata_format, tile_density, accesses, replication_factor, parent_level) ==
  LET a == IF size = 0 THEN 0 ELSE accesses
      u == IF IsReadWriteDataSpace(pv) THEN a ELSE 0
      m == IF metadata_format = "none" THEN 0 ELSE a
      g == IF compressed /\ a > 0 THEN 1 ELSE 0
  IN [size |-> size,
      compressed |-> compressed,
      metadata_format |-> metadata_format,
      tile_density |-> tile_density,
      dense_rank1_fills |-> IF size = 0 THEN 0 ELSE 1,
      dense_rank0_fills |-> size,
      replication_factor |-> replication_factor,
      partition_size |-> 0,
      content_accesses |-> a,
      reads |-> a,
      fills |-> a,
      updates |-> u,
      temporal_reductions |-> u,
      metadata_reads |-> m,
      metadata_fills |-> m,
      metadata_updates |-> IF IsReadWriteDataSpace(pv) THEN m ELSE 0,
      fine_grained_accesses |->
        [NoOps EXCEPT
           !["random_read"] = a - g,
           !["gated_read"] = g,
           !["random_fill"] = a,
           !["random_update"] = u,
           !["metadata_read"] = m,
           !["metadata_fill"] = m,
           !["metadata_update"] = IF IsReadWriteDataSpace(pv) THEN m ELSE 0,
           !["decompression_count"] = g,
           !["compression_count"] = g],
      parent_level |-> parent_level,
      parent_level_name |-> IF parent_level = NoParent THEN "" ELSE "Parent",
      parent_level_op_energy |-> RInt(3),
      parent_level_block_size |-> 2]

\* an uncompressed tile without metadata, one access, one instance
PlainTile(pv, size) ==
  Tile(pv, size, FALSE, "none", DenseModel, 1, 1, NoParent)

\* tile[1] given, the last dataspace holds `rest` elements, those in
\* between are empty
Tiles(first, rest) ==
  [pv \in DataSpaces |->
     IF pv = 1 THEN first
     ELSE IF pv = NumDataSpaces THEN PlainTile(pv, rest)
     ELSE PlainTile(pv, 0)]

\* every tensor compressed with a run-length format: the first holds
\* `first` elements, the last `rest`, those in between are empty
CompressedTiles(first, rest) ==
  [pv \in DataSpaces |->
     Tile(pv, IF pv = 1 THEN first ELSE IF pv = NumDataSpaces THEN rest ELSE 0,
          TRUE, "RLE", ExactModel, 1, 1, NoParent)]

EvalInput(tile, mask, compute_cycles, break_on_failure) ==
  [tile |-> tile,
   mask |-> mask,
   compute_cycles |-> compute_cycles,
   break_on_failure |-> break_on_failure]

AllKept == [pv \in DataSpaces |-> TRUE]

\* mask: every dataspace, or the first one alone
Masks == {AllKept, [pv \in DataSpaces |-> pv = 1]}

PreInput(first, rest, mask, density) ==
  [working_set_sizes |->
     [pv \in DataSpaces |->
        IF pv = 1 THEN first ELSE IF pv = NumDataSpaces THEN rest ELSE 0],
   mask |-> mask,
   density |-> [pv \in DataSpaces |-> IF pv = 1 THEN density ELSE DenseModel]]

\* A configuration with every optional key left out
BaseConfig ==
  [word_bits |-> 2, block_size |-> Unspecified,
   uninitialized_block_size |-> 1,
   metadata_block_size |-> Unspecified, metadata_datawidth |-> Unspecified,
   cluster_size |-> Unspecified, width |-> Unspecified,
   entries |-> Unspecified, technology |-> "SRAM",
   num_ports |-> 2, num_banks |-> 2,
   read_bandwidth |-> RUnspecified, write_bandwidth |-> RUnspecified,
   multiple_buffering |-> ROne, min_utilization |-> RZero,
   instances |-> Unspecified, n_elements |-> 1,
   meshX |-> Unspecified, meshY |-> Unspecified,
   vector_access_energy |-> RInt(2), addr_gen_energy |-> RUnspecified,
   cluster_area |-> RUnspecified,
   ERT_entries |-> <<>>, multicast |-> FALSE, update_word_bits |-> 2]

\* "addr-gen-energy" of the levels of the "addrgen" scenario, which are
\* otherwise those of the energy scenario: 0 and 3
AddrGenEnergyOverrides == {RZero, RInt(3)}

\* <<read_bandwidth, write_bandwidth>> of the levels with bandwidth caps:
\* none, a read cap, both, a write cap, and a read cap of zero
BandwidthCaps ==
  {<<RUnspecified, RUnspecified>>, <<RInt(2), RUnspecified>>,
   <<RInt(1), RInt(2)>>, <<RUnspecified, RInt(1)>>,
   <<RZero, RUnspecified>>}

\* 400 reads in 100 compute cycles: a demand of 4 elements per cycle
ScenarioInput ==
  EvalInput(Tiles(Tile(1, 1, FALSE, "none", DenseModel, 400, 1, NoParent), 0),
            AllKept, 100, FALSE)

\* The scenarios: each pairs a few level configurations with a family of
\* calls.  A behaviour stays within one scenario.
Scenarios ==
  {"capacity", "sparse", "unbounded", "performance", "energy", "addrgen"}

Configs(scn) ==
  IF scn = "capacity"
  THEN {[BaseConfig EXCEPT !.entries = MaxTile],
        [BaseConfig EXCEPT !.entries = 2 * MaxTile,
                           !.multiple_buffering = RInt(2),
                           !.min_utilization = Half,
                           !.instances = 2, !.multicast = TRUE,
                           !.metadata_datawidth = 2, !.block_size = 2]}
  ELSE IF scn = "sparse"
  THEN {[BaseConfig EXCEPT !.entries = 2 * MaxTile - 1,
                           !.metadata_datawidth = 2],
        [BaseConfig EXCEPT !.entries = MaxTile, !.metadata_datawidth = 1],
        [BaseConfig EXCEPT !.entries = MaxTile - 1,
                           !.metadata_datawidth = 2]}
  ELSE IF scn = "unbounded"
  THEN {[BaseConfig EXCEPT !.technology = "DRAM", !.block_size = 2,
                           !.metadata_datawidth = 1]}
  ELSE IF scn = "performance"
  THEN {[BaseConfig EXCEPT !.entries = 2 * MaxTile,
                           !.read_bandwidth = cap[1],
                           !.write_bandwidth = cap[2]] :
          cap \in BandwidthCaps}
  ELSE {[BaseConfig EXCEPT !.entries = 2 * MaxTile, !.instances = 4,
                           !.cluster_size = 2, !.block_size = 2,
                           !.metadata_block_size = 2,
                           !.metadata_datawidth = 1,
                           !.read_bandwidth = RInt(1),
                           !.addr_gen_energy = override] :
          override \in IF scn = "addrgen" THEN AddrGenEnergyOverrides
                       ELSE {RUnspecified}}

EvalInputs(scn) ==
  IF scn = "capacity"
  THEN {EvalInput(Tiles(Tile(1, size, FALSE, fmt, DenseModel, 1, 1, NoParent),
                        1),
                  AllKept, 2, FALSE) :
          size \in 0 .. MaxTile, fmt \in {"none", "bitmask"}}
       \cup {EvalInput(Tiles(PlainTile(1, MaxTile), 0), AllKept, 2, FALSE)}
  ELSE IF scn = "sparse"
  THEN {EvalInput(Tiles(Tile(1, MaxTile, TRUE, fmt, dm, 1, 1, NoParent), rest),
                  AllKept, 2, FALSE) :
          fmt \in {"RLE", "CSR", "bitmask"},
          dm \in {ExactModel, FloorModel, SlackModel, StepModel,
                  KnobModel(Half)},
          rest \in {0, 1}}
       \cup {EvalInput(CompressedTiles(sizes[1], sizes[2]), AllKept, 2, FALSE) :
               sizes \in {<<0, 0>>, <<1, 2>>, <<3, MaxTile>>}}
  ELSE IF scn = "unbounded"
  THEN {EvalInput(Tiles(Tile(1, size, compressed, "RLE", ExactModel, 1, 1,
                             NoParent), 1),
                  mask, 2, FALSE) :
          size \in 0 .. MaxTile, compressed \in BOOLEAN, mask \in Masks}
  ELSE IF scn = "performance"
  THEN {EvalInput(Tiles(Tile(1, 1, FALSE, "none", DenseModel, accesses, 1,
                             NoParent), rest),
                  AllKept, compute_cycles, FALSE) :
          accesses \in 1 .. MaxAccesses, rest \in {0, 1},
          compute_cycles \in 0 .. MaxCycles}
       \cup {ScenarioInput}
  ELSE IF scn = "addrgen"
  THEN {EvalInput(Tiles(Tile(1, 2, TRUE, "RLE", KnobModel(Half),
                             accesses, 1, NoParent), 1),
                  AllKept, 2, FALSE) :
          accesses \in 1 .. MaxAccesses}
  ELSE {EvalInput(Tiles(Tile(1, 2, TRUE, "RLE", KnobModel(Half),
                             accesses, placed[1], placed[2]), 1),
                  AllKept, 2, bof) :
          accesses \in 1 .. MaxAccesses,
          placed \in {<<0, NoParent>>, <<3, NoParent>>, <<3, 1>>,
                      <<5, NoParent>>},
          bof \in BOOLEAN}

PreInputs(scn) ==
  IF scn = "capacity"
  THEN {PreInput(first, 1, mask, DenseModel) :
          first \in 0 .. MaxTile + 1, mask \in Masks}
  ELSE IF scn = "sparse"
  THEN {PreInput(MaxTile, rest, AllKept, dm) :
          rest \in {0, 1}, dm \in {ExactModel, SlackModel}}
  ELSE IF scn = "unbounded"
  THEN {PreInput(first, 1, mask, ExactModel) :
          first \in {0, MaxTile}, mask \in Masks}
  ELSE IF scn = "performance"
  THEN {PreInput(1, 1, AllKept, DenseModel)}
  ELSE {PreInput(2, 1, AllKept, DenseModel)}

\* What a conversion of a non-finite double to an unsigned integer yields:
\* 0 on some builds, a value with the top bit set on others.  What an
\* unsigned division by zero does: a trap, or a quotient of 0.  Only the
\* mesh dimensions are ever divisors, and only the "topology" scenario
\* lets them be 0.
Builds(scn) ==
  IF scn \in {"unbounded", "performance"}
  THEN {[ub_cast |-> 0, div0 |-> "trap"],
        [ub_cast |-> U64Modulus \div 2, div0 |-> "trap"]}
  ELSE IF scn = "topology"
  THEN {[ub_cast |-> 0, div0 |-> "trap"], [ub_cast |-> 0, div0 |-> "zero"]}
  ELSE {[ub_cast |-> 0, div0 |-> "trap"]}

\* ------------------------------------------------------------------------
\* The level as a state machine
\* ------------------------------------------------------------------------

VARIABLES
  scenario,      \* the scenario the behaviour draws its calls from
  build,         \* what the build does where the language leaves it open
  specs0,        \* the Specification Record as constructed
  specs,         \* specs_
  stats,         \* stats_
  is_evaluated,  \* is_evaluated_
  pc,            \* "ready", "aborted" (an assertion failed), "hung"
  last,          \* the last call: operation, inputs, what it returned
  readout        \* what the accessors returned since that call

vars ==
  <<scenario, build, specs0, specs, stats, is_evaluated, pc, last, readout>>

Level ==
  [specs |-> specs, stats |-> stats, is_evaluated |-> is_evaluated,
   build |-> build]

NoReadout == [op |-> "none"]

NoCall ==
  [op |-> "none", input |-> <<>>, outcome |-> "ok", success |-> TRUE,
   fail_reason |-> <<>>, computed |-> FALSE, path |-> <<>>,
   repeated |-> FALSE, after_precheck |-> <<>>, was_evaluated |-> FALSE]

Init ==
  /\ scenario \in Scenarios
  /\ build \in Builds(scenario)
  /\ specs0 \in {ParseSpecs(c, build).specs :
                   c \in {c \in Configs(scenario) :
                            ParseSpecs(c, build).outcome = "ok"}}
  /\ specs = specs0
  /\ stats = InitStats
  /\ is_evaluated = FALSE
  /\ pc = "ready"
  /\ last = NoCall
  /\ readout = NoReadout

\* The tiles of an Evaluate call are at least as large as the working sets
\* of a Pre-check call, tensor by tensor, under the same workload densities.
Covers(in, pre) ==
  \A pv \in DataSpaces :
    /\ in.tile[pv].size >= pre.working_set_sizes[pv]
    /\ in.tile[pv].tile_density = pre.density[pv]

\* A call of Evaluate with inputs in.  A failed assertion or a loop that
\* never exits ends the behaviour of the level.
EvaluateCall ==
  /\ pc = "ready"
  /\ readout = NoReadout
  /\ \E in \in EvalInputs(scenario), lv \in {Level} :
       \E r \in {Evaluate(lv, in)} :
          /\ specs' = r.level.specs
          /\ stats' = r.level.stats
          /\ is_evaluated' = r.level.is_evaluated
          /\ pc' = IF r.outcome = "ok" THEN "ready"
                   ELSE IF r.outcome = "assert" THEN "aborted" ELSE "hung"
          /\ last' = [op |-> "Evaluate", input |-> in, outcome |-> r.outcome,
                      success |-> r.success, fail_reason |-> r.fail_reason,
                      computed |-> r.computed, path |-> r.path,
                      repeated |-> last.op = "Evaluate" /\ last.input = in,
                      after_precheck |->
                        IF /\ last.op = "PreEvaluationCheck"
                           /\ ~last.success
                           /\ Covers(in, last.input)
                        THEN last.fail_reason
                        ELSE <<>>,
                      was_evaluated |-> is_evaluated]
  /\ UNCHANGED <<scenario, build, specs0, readout>>

\* Faulty variant: the pre-check clears the evaluated flag.
PreEvaluationCheckCallResetting ==
  /\ pc = "ready"
  /\ readout = NoReadout
  /\ \E in \in PreInputs(scenario), lv \in {Level} :
       \E r \in {PreEvaluationCheck(lv, in)} :
          last' = [op |-> "PreEvaluationCheck", input |-> in,
                   outcome |-> "ok", success |-> r.success,
                   fail_reason |-> r.fail_reason, computed |-> FALSE,
                   path |-> <<>>,
                   repeated |-> last.op = "PreEvaluationCheck"
                                /\ last.input = in,
                   after_precheck |-> <<>>,
                   was_evaluated |-> is_evaluated]
  /\ is_evaluated' = FALSE
  /\ UNCHANGED <<scenario, build, specs0, specs, stats, pc, readout>>

\* A call of PreEvaluationCheck with inputs in.
PreEvaluationCheckCall ==
  /\ pc = "ready"
  /\ readout = NoReadout
  /\ \E in \in PreInputs(scenario), lv \in {Level} :
       \E r \in {PreEvaluationCheck(lv, in)} :
          last' = [op |-> "PreEvaluationCheck", input |-> in,
                   outcome |-> "ok", success |-> r.success,
                   fail_reason |-> r.fail_reason, computed |-> FALSE,
                   path |-> <<>>,
                   repeated |-> last.op = "PreEvaluationCheck"
                                /\ last.input = in,
                   after_precheck |-> <<>>,
                   was_evaluated |-> is_evaluated]
  /\ UNCHANGED <<scenario, build, specs0, specs, stats, is_evaluated, pc,
                 readout>>

\* The caller reads the level through its accessors: the energy accessors
\* of every tensor and, on a level with a size, CapacityUtilization().
\* The behaviours explored end with the read: the calls above are taken
\* while nothing has been read.
AccessorsCall ==
  /\ pc = "ready"
  /\ \E lv \in {Level} :
       readout' =
         [op |-> "read",
          StorageEnergy |-> [pv \in DataSpaces |-> StorageEnergy(lv, pv)],
          TemporalReductionEnergy |->
            [pv \in DataSpaces |-> TemporalReductionEnergy(lv, pv)],
          AddrGenEnergy |-> [pv \in DataSpaces |-> AddrGenEnergy(lv, pv)],
          Energy |-> [pv \in DataSpaces |-> Energy(lv, pv)],
          CapacityUtilization |->
            IF lv.specs.size # Unspecified
            THEN CapacityUtilization(lv) ELSE RUnspecified]
  /\ UNCHANGED <<scenario, build, specs0, specs, stats, is_evaluated, pc,
                 last>>

Next == EvaluateCall \/ PreEvaluationCheckCall \/ AccessorsCall

Spec == Init /\ [][Next]_vars

\* ------------------------------------------------------------------------
\* The topology validation on its own: ValidateTopology applied to a
\* Specification Record in which each of instances, meshX and meshY is
\* left out or holds a value in 0..MaxMesh
\* ------------------------------------------------------------------------

MaxMesh == 4

MeshValues == {Unspecified} \cup 0..MaxMesh

InitTopology ==
  /\ scenario = "topology"
  /\ build \in Builds(scenario)
  /\ specs0 \in {[ParseSpecs(BaseConfig, build).specs
                    EXCEPT !.instances = i, !.meshX = x, !.meshY = y] :
                   i \in MeshValues, x \in MeshValues, y \in MeshValues}
  /\ specs = specs0
  /\ stats = InitStats
  /\ is_evaluated = FALSE
  /\ pc = "constructing"
  /\ last = NoCall
  /\ readout = NoReadout

\* The call of ValidateTopology(specs) that ends ParseSpecs.  An assertion
\* that fails, the error exit and a trap end the behaviour.
ValidateTopologyCall ==
  /\ pc = "constructing"
  /\ \E r \in {ValidateTopology(specs.instances, specs.meshX, specs.meshY,
                                 build.div0)} :
       /\ specs' = [specs EXCEPT !.instances = r.instances,
                                  !.meshX = r.meshX, !.meshY = r.meshY]
       /\ pc' = IF r.outcome = "ok" THEN "constructed"
                ELSE IF r.outcome = "exit" THEN "exited"
                ELSE "aborted"
       /\ last' = [NoCall EXCEPT !.op = "ValidateTopology",
                                 !.outcome = r.outcome]
  /\ UNCHANGED <<scenario, build, specs0, stats, is_evaluated, readout>>

NextTopology == ValidateTopologyCall

SpecTopology == InitTopology /\ [][NextTopology]_vars

\* ------------------------------------------------------------------------
\* Construction on its own: ParseSpecs applied to configurations that
\* differ in technology, cluster-size, width, cluster-area and entries
\* ------------------------------------------------------------------------

\* A Specs object before ParseSpecs fills it: no attribute is set
UnsetSpecs ==
  [k \in DOMAIN ParseSpecs(BaseConfig, [ub_cast |-> 0, div0 |-> "trap"]).specs
     |-> Unspecified]

ConstructionConfigs ==
  {[BaseConfig EXCEPT !.technology = technology,
                      !.cluster_size = cluster_size,
                      !.width = width,
                      !.cluster_area = cluster_area,
                      !.entries = entries] :
     technology \in {"SRAM", "DRAM"},
     cluster_size \in {Unspecified, 1, 2},
     width \in {Unspecified, 2, 3, 4},
     cluster_area \in {RUnspecified, RZero, RInt(2)},
     entries \in {Unspecified, MaxTile}}

InitConstruction ==
  /\ scenario = "construction"
  /\ build \in Builds(scenario)
  /\ specs0 = UnsetSpecs
  /\ specs = specs0
  /\ stats = InitStats
  /\ is_evaluated = FALSE
  /\ pc = "constructing"
  /\ last \in {[NoCall EXCEPT !.op = "configure", !.input = c] :
                 c \in ConstructionConfigs}
  /\ readout = NoReadout

\* ParseSpecs(setting, n_elements) on the configuration at hand.  A failed
\* assertion and the error exit end the behaviour without a record.
ParseSpecsCall ==
  /\ pc = "constructing"
  /\ \E r \in {ParseSpecs(last.input, build)} :
       /\ specs' = IF r.outcome = "ok" THEN r.specs ELSE specs
       /\ pc' = IF r.outcome = "ok" THEN "constructed"
                ELSE IF r.outcome = "exit" THEN "exited"
                ELSE "aborted"
       /\ last' = [last EXCEPT !.op = "ParseSpecs", !.outcome = r.outcome]
  /\ UNCHANGED <<scenario, build, specs0, stats, is_evaluated, readout>>

NextConstruction == ParseSpecsCall

SpecConstruction == InitConstruction /\ [][NextConstruction]_vars

\* ------------------------------------------------------------------------
\* Properties
\* ------------------------------------------------------------------------

\* The last call was Evaluate and it returned.
Returned == last.op = "Evaluate" /\ pc = "ready"

PreChecked == last.op = "PreEvaluationCheck"

Mentions(reason, message) == \E i \in DOMAIN reason : reason[i] = message

\* A level constructed from the same specification, never evaluated.
FreshLevel ==
  [specs |-> specs0, stats |-> InitStats, is_evaluated |-> FALSE,
   build |-> build]

\* C1: Evaluate called twice in a row with identical inputs returns the same
\* status both times, and the Result Record after the second call is the
\* record after the first call.
C1_EvaluateIdempotent ==
  [][(last'.op = "Evaluate" /\ last'.repeated /\ pc' = "ready")
       => /\ last'.success = last.success
          /\ last'.fail_reason = last.fail_reason
          /\ stats' = stats]_vars

\* C1's case: a failing call with break_on_failure, repeated.
C1_RepeatedCall ==
  Returned /\ last.repeated /\ ~last.success /\ ~last.computed

\* C2: after an Evaluate call returns, the Result Record is the one a level
\* with the same specification and no earlier calls holds after that call.
C2_NoHistory ==
  Returned => stats = Evaluate(FreshLevel, last.input).level.stats

C4_TotalUtilized == SumOver(stats.utilized_capacity, NumDataSpaces)

C4_Infeasible ==
  \/ /\ specs.size # Unspecified
     /\ \/ C4_TotalUtilized > specs.effective_size
        \/ RLess(RInt(C4_TotalUtilized),
                 RMul(RInt(specs.effective_size), specs.min_utilization))
  \/ MaxOver(stats.utilized_instances, NumDataSpaces) > specs.instances

\* C4: Evaluate returns failure exactly when the level's size is specified
\* and the total utilized capacity exceeds effective_size or is below
\* effective_size * min_utilization, or the largest utilized instance count
\* exceeds the instance count; without a size neither capacity condition
\* applies.
C4_StatusReportsInfeasibility == Returned => (last.success <=> ~C4_Infeasible)

\* C4's case: a call that fails on minimum utilization alone.
C4_UnderUtilized ==
  Returned /\ last.fail_reason = <<"less than minimum utilization">>

\* C5: a constructed level is not evaluated, and after every Evaluate call
\* is_evaluated is the success value the call returned.
C5_FlagIsReturnedStatus ==
  /\ last.op = "none" => ~is_evaluated
  /\ Returned => is_evaluated = last.success

\* C5's case: a failing call that still computed energy and performance, on
\* a level an earlier call had evaluated.
C5_FailureAfterSuccess ==
  Returned /\ last.was_evaluated /\ ~last.success /\ last.computed

RECURSIVE C6_Required(_, _)
C6_Required(in, n) ==
  IF n = 0 THEN 0
  ELSE C6_Required(in, n - 1)
       + (IF in.mask[n]
          THEN RCeil(RMul(RInt(in.working_set_sizes[n]), in.density[n].expected))
          ELSE 0)

C6_Available ==
  IF specs.multicast THEN specs.effective_size * specs.instances
  ELSE specs.effective_size

\* C6: with the size specified, PreEvaluationCheck fails exactly when the
\* required capacity (masked tensors, ceil(size * expected density)) exceeds
\* the available capacity (effective_size, times instances under multicast)
\* or is below effective_size * min_utilization.
C6_PreCheckCriterion ==
  (PreChecked /\ specs.size # Unspecified)
    => (~last.success <=>
          \/ C6_Required(last.input, NumDataSpaces) > C6_Available
          \/ RLess(RInt(C6_Required(last.input, NumDataSpaces)),
                   RMul(RInt(specs.effective_size), specs.min_utilization)))

\* C6's case: a working set larger than one instance passes under multicast,
\* with a tensor left out by the mask.
C6_MulticastPass ==
  /\ PreChecked
  /\ specs.multicast
  /\ last.success
  /\ C6_Required(last.input, NumDataSpaces) > specs.effective_size
  /\ \E pv \in DataSpaces :
       ~last.input.mask[pv] /\ last.input.working_set_sizes[pv] > 0

\* C7: on a level without a size PreEvaluationCheck succeeds with an empty
\* reason, whatever the working sets, mask and densities.
C7_UnboundedPreCheckPasses ==
  (PreChecked /\ specs.size = Unspecified)
    => last.success /\ last.fail_reason = <<>>

\* C7's case: the largest working set checked on a level without a size.
C7_UnboundedPreCheck ==
  /\ PreChecked
  /\ specs.size = Unspecified
  /\ last.input.working_set_sizes[1] = MaxTile

\* C8: a PreEvaluationCheck call leaves the Specification Record, the
\* Result Record and is_evaluated as they were, and its status is the one
\* the same inputs get on the level as constructed, whatever was called
\* before.
C8_PreCheckMutatesNothing ==
  [][last'.op = "PreEvaluationCheck"
       => /\ UNCHANGED <<specs, stats, is_evaluated>>
          /\ last'.success
               = PreEvaluationCheck(FreshLevel, last'.input).success]_vars

\* C8's case: a failing pre-check on a level whose last Evaluate succeeded.
C8_PreCheckAfterEvaluate ==
  PreChecked /\ is_evaluated /\ specs # specs0 /\ ~last.success

\* C9: the tightening loop of the sparse tile-size estimate exits.
C9_LoopTerminates == pc # "hung"

\* C10: for a compressed tensor without a confidence knob on a level with a
\* finite effective_size, the committed sizes satisfy
\* ceil(metadata_tile_size * metadata_word_bits / word_bits)
\*   + compressed_tile_size <= allocated share.
C10_CommittedFitsShare ==
  (Returned /\ specs.effective_size # Unspecified)
    => \A pv \in DataSpaces :
         (/\ last.input.tile[pv].compressed
          /\ ~last.input.tile[pv].tile_density.user_defined_knob)
           => CeilDiv(stats.metadata_tile_size[pv] * specs.metadata_word_bits,
                      specs.word_bits)
              + stats.compressed_tile_size[pv] <= last.path[pv].allocated

\* The energy, bandwidth and cycle counts of the last call were computed.
Computed == Returned /\ last.computed

\* C11: after ComputePerformance with compute_cycles > 0 and bandwidth caps
\* that are unspecified or non-negative, 0 < slowdown <= 1,
\* cycles = ceil(compute_cycles / slowdown) and cycles >= compute_cycles.
C11_SlowdownInRange ==
  (Computed /\ last.input.compute_cycles > 0)
    => /\ RLess(RZero, stats.slowdown)
       /\ RLeq(stats.slowdown, ROne)
       /\ stats.cycles
            = RCeil(RDiv(RInt(last.input.compute_cycles), stats.slowdown))
       /\ stats.cycles >= last.input.compute_cycles

\* total read and write demand of the last call: the sum over the tensors
\* of reads (updates + fills) per compute cycle
C12_ReadDemand ==
  RSumOver([pv \in DataSpaces |->
              Rat(last.input.tile[pv].reads, last.input.compute_cycles)],
           NumDataSpaces)

C12_WriteDemand ==
  RSumOver([pv \in DataSpaces |->
              Rat(last.input.tile[pv].updates + last.input.tile[pv].fills,
                  last.input.compute_cycles)],
           NumDataSpaces)

\* 1, and cap / demand for each specified cap that is below its demand
C12_Candidates ==
  {ROne}
  \cup {RDiv(specs0.read_bandwidth, C12_ReadDemand) : x \in
          {y \in {1} : /\ specs0.read_bandwidth # RUnspecified
                       /\ RLess(specs0.read_bandwidth, C12_ReadDemand)}}
  \cup {RDiv(specs0.write_bandwidth, C12_WriteDemand) : x \in
          {y \in {1} : /\ specs0.write_bandwidth # RUnspecified
                       /\ RLess(specs0.write_bandwidth, C12_WriteDemand)}}

\* C12: slowdown is the minimum of 1 and cap / total demand over the caps
\* that are specified and below their demand; the demands are the totals
\* of reads and of updates + fills per compute cycle; without caps
\* slowdown = 1 and cycles = compute_cycles; a read cap of 2 against 400
\* reads in 100 cycles gives slowdown 1/2 and cycles 200.
C12_SlowdownFormula ==
  Computed
    => /\ stats.slowdown \in C12_Candidates
       /\ \A c \in C12_Candidates : RLeq(stats.slowdown, c)
       /\ last.input.compute_cycles > 0
            => /\ C12_ReadDemand
                   = Rat(SumOver([pv \in DataSpaces |->
                                    last.input.tile[pv].reads],
                                 NumDataSpaces),
                         last.input.compute_cycles)
               /\ C12_WriteDemand
                   = Rat(SumOver([pv \in DataSpaces |->
                                    last.input.tile[pv].updates
                                    + last.input.tile[pv].fills],
                                 NumDataSpaces),
                         last.input.compute_cycles)
       /\ (specs0.read_bandwidth = RUnspecified
            /\ specs0.write_bandwidth = RUnspecified)
            => /\ stats.slowdown = ROne
               /\ stats.cycles = last.input.compute_cycles
       /\ (last.input = ScenarioInput /\ specs0.read_bandwidth = RInt(2)
            /\ specs0.write_bandwidth = RUnspecified)
            => /\ C12_ReadDemand = RInt(4)
               /\ stats.slowdown = Half
               /\ stats.cycles = 200

\* both caps are below their demand and the read cap is the tighter one
C12_BothCapsBind ==
  /\ Computed
  /\ specs0.read_bandwidth # RUnspecified
  /\ specs0.write_bandwidth # RUnspecified
  /\ RLess(specs0.read_bandwidth, C12_ReadDemand)
  /\ RLess(specs0.write_bandwidth, C12_WriteDemand)
  /\ stats.slowdown = RDiv(specs0.read_bandwidth, C12_ReadDemand)
  /\ RLess(stats.slowdown, RDiv(specs0.write_bandwidth, C12_WriteDemand))

\* a tensor for which one of the divisors of the evaluation is zero
C13_ZeroCase(pv) ==
  \/ last.input.tile[pv].reads + last.input.tile[pv].updates
       + last.input.tile[pv].fills = 0
  \/ last.input.tile[pv].size = 0
  \/ stats.utilized_instances[pv] = 0
  \/ stats.utilized_clusters[pv] = 0
  \/ last.input.compute_cycles = 0
  \/ stats.slowdown = RZero

\* C13: for a tensor with zero accesses, zero tile size, zero utilized
\* instances or clusters, and for compute_cycles = 0 or a slowdown of 0,
\* Evaluate yields zero energy, zero energy per access and zero bandwidth:
\* no quotient with a zero divisor is evaluated.
C13_NoZeroDivisor ==
  Computed
    => \A pv \in DataSpaces :
         C13_ZeroCase(pv)
           => /\ stats.energy[pv] = RZero
              /\ stats.energy_per_access[pv] = RZero
              /\ stats.read_bandwidth[pv] = RZero
              /\ stats.write_bandwidth[pv] = RZero

\* The accessors have been read.
Read == readout.op = "read"

C14_TotalUtilized == SumOver(stats.utilized_capacity, NumDataSpaces)

\* one uncompressed tensor without metadata fills the one instance of a
\* level that is not multiply buffered; the other tensors hold nothing
C14_SingleTensorFills ==
  /\ last.op = "Evaluate"
  /\ specs.instances = 1
  /\ specs.multiple_buffering = ROne
  /\ \E pv \in DataSpaces :
       /\ ~last.input.tile[pv].compressed
       /\ last.input.tile[pv].metadata_format = "none"
       /\ last.input.tile[pv].size = specs.size
       /\ last.input.tile[pv].replication_factor = 1
       /\ \A q \in DataSpaces \ {pv} : stats.utilized_capacity[q] = 0

\* C14: a total utilized capacity equal to effective_size is accepted by
\* Evaluate and only a larger total fails on capacity; CapacityUtilization()
\* is the sum of utilized_capacity * utilized_instances over the tensors
\* divided by size * instances, and is 1 when a single uncompressed tensor
\* without metadata fills the single instance of a level whose
\* multiple-buffering factor is 1.
C14_InclusiveLimit ==
  /\ (Returned /\ specs.size # Unspecified)
       => /\ C14_TotalUtilized > specs.effective_size => ~last.success
          /\ C14_TotalUtilized = specs.effective_size
               => /\ ~Mentions(last.fail_reason, "exceeds buffer capacity")
                  /\ last.success
                       <=> MaxOver(stats.utilized_instances, NumDataSpaces)
                             <= specs.instances
  /\ (Read /\ specs.size # Unspecified)
       => /\ readout.CapacityUtilization
               = Rat(SumOver([pv \in DataSpaces |->
                                stats.utilized_capacity[pv]
                                * stats.utilized_instances[pv]],
                             NumDataSpaces),
                     specs.size * specs.instances)
          /\ (Returned /\ C14_SingleTensorFills)
               => /\ last.success
                  /\ readout.CapacityUtilization = ROne

\* C14's case: the level is filled exactly and read afterwards
C14_ExactFit ==
  /\ Returned /\ Read /\ last.success
  /\ C14_SingleTensorFills
  /\ C14_TotalUtilized = specs.effective_size
  /\ readout.CapacityUtilization = ROne

\* C19: StorageEnergy and TemporalReductionEnergy are the per-instance
\* energies times utilized_instances, AddrGenEnergy is the per-cluster
\* energy times utilized_clusters, Energy is the sum of the three, and
\* reading them leaves the level as it was.
C19_AccessorsAggregate ==
  [][readout'.op = "read"
       => /\ stats' = stats /\ specs' = specs
          /\ is_evaluated' = is_evaluated
          /\ \A pv \in DataSpaces :
               /\ readout'.StorageEnergy[pv]
                    = RMul(stats.energy[pv], RInt(stats.utilized_instances[pv]))
               /\ readout'.TemporalReductionEnergy[pv]
                    = RMul(stats.temporal_reduction_energy[pv],
                           RInt(stats.utilized_instances[pv]))
               /\ readout'.AddrGenEnergy[pv]
                    = RMul(stats.addr_gen_energy[pv],
                           RInt(stats.utilized_clusters[pv]))
               /\ readout'.Energy[pv]
                    = RAdd(RAdd(readout'.StorageEnergy[pv],
                                readout'.TemporalReductionEnergy[pv]),
                           readout'.AddrGenEnergy[pv])]_vars

\* C19's case: a tensor spread over more instances than clusters, with
\* address-generation energy, has been read
C19_MoreInstancesThanClusters ==
  /\ Read /\ Returned /\ last.success
  /\ \E pv \in DataSpaces :
       /\ stats.utilized_clusters[pv] > 0
       /\ stats.utilized_instances[pv] > stats.utilized_clusters[pv]
       /\ RLess(RZero, stats.addr_gen_energy[pv])
       /\ readout.Energy[pv] # RZero

\* C15: for a tensor with compression disabled, compressed_tile_size is the
\* raw tile size, metadata_tile_size is the raw tile size for the bitmask
\* format and 0 for every other format, tile_confidence is 1 and the stored
\* density is 1, whatever the density model and the level's capacity.
C15_UncompressedSizes ==
  Returned
    => \A pv \in DataSpaces :
         ~last.input.tile[pv].compressed
           => /\ stats.compressed_tile_size[pv] = last.input.tile[pv].size
              /\ stats.metadata_tile_size[pv]
                   = IF last.input.tile[pv].metadata_format = "bitmask"
                     THEN last.input.tile[pv].size ELSE 0
              /\ stats.tile_confidence[pv] = ROne
              /\ stats.tile_max_density[pv] = ROne

\* C15's case: an uncompressed tensor with a run-length format and a
\* density model that expects half of the elements
C15_UncompressedSparseWorkload ==
  /\ Returned
  /\ \E pv \in DataSpaces :
       /\ ~last.input.tile[pv].compressed
       /\ last.input.tile[pv].size > 0
       /\ last.input.tile[pv].metadata_format = "RLE"
       /\ last.input.tile[pv].tile_density.expected = Half
       /\ stats.metadata_tile_size[pv] = 0

\* The fields of the Result Record that the energy and performance
\* composers write.
C16_Composed(st) ==
  <<st.energy, st.energy_per_access, st.speculation_energy_cost,
    st.parent_level_name, st.temporal_reduction_energy, st.addr_gen_energy,
    st.read_bandwidth, st.write_bandwidth, st.slowdown, st.cycles>>

\* What the four composers leave in the Result Record of level lv
C16_Compose(lv, in) ==
  Let(ComputeBufferEnergy(lv, in.tile), LAMBDA lv2 :
  Let(ComputeReductionEnergy(lv2), LAMBDA lv3 :
  Let(ComputeAddrGenEnergy(lv3), LAMBDA lv4 :
    ComputePerformance(lv4, in.compute_cycles).stats)))

\* C16: Evaluate returns the status of the access/capacity evaluator; the
\* energy and performance composers run on the evaluator's result when it
\* succeeded or break_on_failure is false, and otherwise none of the
\* energy, bandwidth, slowdown and cycles fields is written.
C16_ComposersRunIffNotShortCircuited ==
  [][(last'.op = "Evaluate" /\ readout'.op = "none" /\ pc' = "ready")
       => \E lv \in {Level} :
            \E ca \in {ComputeAccesses(lv, last'.input.tile,
                                         last'.input.mask)} :
              /\ last'.success = ca.success
              /\ last'.fail_reason = ca.fail_reason
              /\ IF ca.success \/ ~last'.input.break_on_failure
                 THEN stats' = C16_Compose([lv EXCEPT !.specs = ca.specs,
                                                       !.stats = ca.stats],
                                           last'.input)
                 ELSE /\ stats' = ca.stats
                      /\ C16_Composed(stats') = C16_Composed(stats)]_vars

\* C16's case: a failing call that short-circuits on a level that holds
\* the energy of an earlier call
C16_ShortCircuited ==
  /\ Returned /\ last.was_evaluated
  /\ last.input.break_on_failure /\ ~last.success
  /\ C16_Composed(stats) # C16_Composed(InitStats)

\* C17: the Specification Record is immutable after construction: after any
\* sequence of PreEvaluationCheck and Evaluate calls it equals the record
\* the level was constructed with.
C17_SpecsImmutable == specs = specs0

\* ------------------------------------------------------------------------
\* C18: whenever ValidateTopology returns normally, instances, meshX and
\* meshY are all specified and meshX * meshY = instances, with the values
\* that were given kept.  Two known values give the third (instances alone
\* gives a mesh of instances by 1); known values that do not agree (the
\* product differs, or the known mesh dimension does not divide
\* instances) abort; only meshX, only meshY or none of the three known is
\* the error exit.  A known mesh dimension of 0 next to known instances is
\* a division by zero: the build traps, or goes on with a quotient of 0.
\* ------------------------------------------------------------------------

C18_Known(v) == v # Unspecified

C18_Expected ==
  LET i == specs0.instances
      x == specs0.meshX
      y == specs0.meshY
  IN IF C18_Known(i) /\ C18_Known(x) /\ C18_Known(y)
     THEN IF x * y = i THEN "ok" ELSE "assert"
     ELSE IF C18_Known(i) /\ C18_Known(x)
     THEN IF x = 0 THEN IF build.div0 = "trap" THEN "trap"
                        ELSE IF i = 0 THEN "ok" ELSE "assert"
          ELSE IF i % x = 0 THEN "ok" ELSE "assert"
     ELSE IF C18_Known(i) /\ C18_Known(y)
     THEN IF y = 0 THEN IF build.div0 = "trap" THEN "trap"
                        ELSE IF i = 0 THEN "ok" ELSE "assert"
          ELSE IF i % y = 0 THEN "ok" ELSE "assert"
     ELSE IF C18_Known(i) \/ (C18_Known(x) /\ C18_Known(y))
     THEN "ok"
     ELSE "exit"

C18_TopologyComplete ==
  last.op = "ValidateTopology" =>
    /\ last.outcome = C18_Expected
    /\ last.outcome = "ok" =>
         /\ C18_Known(specs.instances)
         /\ C18_Known(specs.meshX)
         /\ C18_Known(specs.meshY)
         /\ specs.meshX * specs.meshY = specs.instances
         /\ C18_Known(specs0.instances) => specs.instances = specs0.instances
         /\ C18_Known(specs0.meshX) => specs.meshX = specs0.meshX
         /\ C18_Known(specs0.meshY) => specs.meshY = specs0.meshY
    /\ last.outcome # "ok" => specs = specs0

\* a mesh of 2 by 2 derived from 4 instances and a meshX of 2
C18_MeshYDerived ==
  /\ last.op = "ValidateTopology"
  /\ last.outcome = "ok"
  /\ specs0.instances = 4 /\ specs0.meshX = 2 /\ specs0.meshY = Unspecified
  /\ specs.meshY = 2

\* ------------------------------------------------------------------------
\* C20: the conservative retry always fits.  Whenever the first estimate
\* of a compressed tensor overshoots its allocated share at a non-zero
\* confidence, the estimate made again with the capacity
\* (allocated share - equivalent metadata - 1) has compressed size plus
\* equivalent metadata size within the allocated share: no call stops at
\* the assertion that precedes the tightening loop.
\* ------------------------------------------------------------------------

C20_RetryFits ==
  last.op = "Evaluate" =>
    \A pv \in DataSpaces :
      last.path[pv].retried =>
        ~(last.path[pv].outcome = "assert" /\ last.path[pv].iterations = 0)

\* ------------------------------------------------------------------------
\* C21: for a compressed tensor without a user confidence knob on a level
\* whose effective_size is unspecified, ComputeAccesses commits confidence
\* 1, the expected density of the density model for the raw tile size,
\* compressed_tile_size = ceil(tile size * expected density) and the
\* metadata size of that density; neither the conservative retry nor the
\* tightening loop runs.
\* ------------------------------------------------------------------------

C21_UnboundedCase(pv) ==
  /\ specs0.effective_size = Unspecified
  /\ last.input.tile[pv].compressed
  /\ ~last.input.tile[pv].tile_density.user_defined_knob

C21_UnboundedUsesExpectedDensity ==
  Returned =>
    \A pv \in DataSpaces :
      C21_UnboundedCase(pv) =>
        LET t == last.input.tile[pv]
            d == t.tile_density.expected
        IN /\ stats.tile_confidence[pv] = ROne
           /\ stats.tile_max_density[pv] = d
           /\ stats.compressed_tile_size[pv] = RCeil(RMul(RInt(t.size), d))
           /\ stats.metadata_tile_size[pv] = GetMetaDataTileSize(t, d)
           /\ ~last.path[pv].retried
           /\ last.path[pv].iterations = 0

\* a compressed tile of 3 elements at an expected density of 1/2 : 2 stored
C21_OddTileOnUnboundedLevel ==
  /\ Returned
  /\ \E pv \in DataSpaces :
       /\ C21_UnboundedCase(pv)
       /\ last.input.tile[pv].size = 3
       /\ last.input.tile[pv].tile_density.expected = Half
       /\ stats.compressed_tile_size[pv] = 2

\* ------------------------------------------------------------------------
\* C22: after ComputeAccesses, for every tensor, whichever way its sizes
\* were estimated, utilized_capacity = compressed_tile_size
\* + ceil(metadata_tile_size * metadata_word_bits / word_bits) with the
\* committed sizes, and utilized_instances is the replication factor of the
\* tile descriptor.
\* ------------------------------------------------------------------------

C22_UtilizedCapacityAndInstances ==
  Returned =>
    \A pv \in DataSpaces :
      /\ stats.utilized_capacity[pv]
           = stats.compressed_tile_size[pv]
             + RCeil(RDiv(RInt(stats.metadata_tile_size[pv]
                               * specs.metadata_word_bits),
                          RInt(specs.word_bits)))
      /\ stats.utilized_instances[pv]
           = last.input.tile[pv].replication_factor

\* one word of metadata at half the width of a data word, on a tile that is
\* replicated 3 times: the metadata takes a whole data word
C22_HalfWordOfMetadata ==
  /\ Returned
  /\ \E pv \in DataSpaces :
       /\ stats.metadata_tile_size[pv] = 1
       /\ 2 * specs.metadata_word_bits = specs.word_bits
       /\ stats.utilized_capacity[pv] = stats.compressed_tile_size[pv] + 1
       /\ stats.utilized_instances[pv] = 3

\* ------------------------------------------------------------------------
\* C23: after ComputeAccesses, addr_gen_bits = ceil(log2(ceil(size /
\* block_size))) on a level with a size, and the same with the total
\* utilized capacity in place of size on a level without one, also when
\* the size is not a multiple of block_size.  Stated where the size (or the
\* utilized capacity) is at least 1, so that the logarithm exists.
\* ------------------------------------------------------------------------

C23_SizeOrProxy ==
  IF specs.size # Unspecified THEN specs.size
  ELSE SumOver(stats.utilized_capacity, NumDataSpaces)

C23_AddrGenBitsFormula ==
  (Returned /\ C23_SizeOrProxy >= 1) =>
    specs.addr_gen_bits
      = CeilLog2From(RCeil(RDiv(RInt(C23_SizeOrProxy),
                                RInt(specs.block_size))), 0)

\* ------------------------------------------------------------------------
\* C24: for each tensor with utilized_instances > 0 the per-instance storage
\* energy is (access_energy + speculation_cost) * utilized_clusters
\* / utilized_instances; access_energy is the sum over the data actions of
\* ceil(scalar accesses / block_size) * count(action) / scalar accesses
\* * op_energy(action), the like sum over the metadata actions with
\* metadata_block_size and the metadata accesses, and count * op_energy
\* for compression and decompression.  With utilized_instances = 0 the
\* storage energy is 0.
\* ------------------------------------------------------------------------

\* access_energy of a tensor, from the counts of the call and the record
C24_AccessEnergy(pv) ==
  LET t == last.input.tile[pv]
      accesses == stats.reads[pv] + stats.updates[pv] + stats.fills[pv]
      metadata_accesses == stats.metadata_reads[pv] + stats.metadata_fills[pv]
                           + stats.metadata_updates[pv]
      vectors == RCeil(Rat(accesses, specs.block_size))
      metadata_vectors == RCeil(Rat(metadata_accesses,
                                    specs.metadata_block_size))
      term == [op \in StorageOps |->
                 IF op \in CountOps
                 THEN RMul(RInt(t.fine_grained_accesses[op]),
                           specs.op_energy_map[op])
                 ELSE IF op \in DataOps
                 THEN IF accesses = 0 THEN RZero
                      ELSE RMul(Rat(vectors * t.fine_grained_accesses[op],
                                    accesses),
                                specs.op_energy_map[op])
                 ELSE IF metadata_accesses = 0 THEN RZero
                      ELSE RMul(Rat(metadata_vectors
                                      * t.fine_grained_accesses[op],
                                    metadata_accesses),
                                specs.op_energy_map[op])]
  IN RSum(StorageOps, term)

\* the speculation correction applies to the tensor
C24_Speculates(pv) ==
  /\ stats.tile_confidence[pv] # ROne
  /\ last.input.tile[pv].parent_level # NoParent
  /\ last.input.tile[pv].parent_level_name # ""

\* (access_energy + speculation_cost) * utilized_clusters
\* / utilized_instances; the record holds speculation_cost
\* * utilized_clusters / utilized_instances
C24_Energy(pv, access_energy) ==
  IF stats.utilized_instances[pv] > 0
  THEN RAdd(RMul(access_energy, Rat(stats.utilized_clusters[pv],
                                    stats.utilized_instances[pv])),
            stats.speculation_energy_cost[pv])
  ELSE RZero

\* as stated: access_energy is the sum itself for every tensor
C24_StorageEnergyOfUnscaledSum ==
  Computed =>
    \A pv \in DataSpaces :
      stats.energy[pv] = C24_Energy(pv, C24_AccessEnergy(pv))

\* access_energy is the sum, times the tile confidence where the
\* speculation correction applies
C24_StorageEnergy ==
  Computed =>
    \A pv \in DataSpaces :
      stats.energy[pv]
        = C24_Energy(pv, IF C24_Speculates(pv)
                         THEN RMul(C24_AccessEnergy(pv),
                                   stats.tile_confidence[pv])
                         ELSE C24_AccessEnergy(pv))

\* a tensor with 3 scalar accesses in vectors of 2, and a tensor on 3
\* instances in 2 clusters
C24_PartVectorAcrossClusters ==
  /\ Computed
  /\ \E pv \in DataSpaces :
       /\ stats.reads[pv] + stats.updates[pv] + stats.fills[pv] = 3
       /\ specs.block_size = 2
       /\ stats.energy[pv] # RZero
  /\ \E pv \in DataSpaces :
       /\ stats.utilized_instances[pv] = 3
       /\ stats.utilized_clusters[pv] = 2
       /\ stats.energy[pv] # RZero

\* ------------------------------------------------------------------------
\* C25: speculation correction.  For a tensor whose tile confidence c is
\* below 1 and which has a recorded parent level, the speculation cost is
\* access_energy * (1 - c) * (parent random-read energy / parent block
\* size) / (random-read energy of the level / block_size), and the access
\* energy becomes access_energy * c; with confidence 1 or without a parent
\* level the speculation cost is 0 and the access energy is not scaled.
\* Read on the record of a tensor with utilized instances, where both
\* quantities appear times utilized_clusters / utilized_instances.
\* ------------------------------------------------------------------------

C25_ScalarReadEnergyRatio(pv) ==
  RDiv(RDiv(last.input.tile[pv].parent_level_op_energy,
            RInt(last.input.tile[pv].parent_level_block_size)),
       RDiv(specs.op_energy_map["random_read"], RInt(specs.block_size)))

C25_PerInstance(pv, cluster_energy) ==
  RMul(cluster_energy, Rat(stats.utilized_clusters[pv],
                           stats.utilized_instances[pv]))

C25_SpeculationCorrection ==
  Computed =>
    \A pv \in DataSpaces :
      stats.utilized_instances[pv] > 0 =>
        IF C24_Speculates(pv)
        THEN /\ stats.speculation_energy_cost[pv]
                  = C25_PerInstance(pv,
                      RMul(RMul(C24_AccessEnergy(pv),
                                ROneMinus(stats.tile_confidence[pv])),
                           C25_ScalarReadEnergyRatio(pv)))
             /\ stats.energy[pv]
                  = RAdd(C25_PerInstance(pv,
                           RMul(C24_AccessEnergy(pv),
                                stats.tile_confidence[pv])),
                         stats.speculation_energy_cost[pv])
        ELSE /\ stats.speculation_energy_cost[pv] = RZero
             /\ stats.energy[pv] = C25_PerInstance(pv, C24_AccessEnergy(pv))

\* ------------------------------------------------------------------------
\* C26: the per-cluster address-generation energy of a tensor is
\* address_generations * addr_gen_energy when the configured override is
\* non-negative, an override of 0 included, and address_generations
\* * AdderEnergy(addr_gen_bits, addr_gen_bits) when it is the negative
\* sentinel; address_generations = updates + fills for a read-write
\* tensor, reads + fills for a read-only one.
\* ------------------------------------------------------------------------

C26_AddressGenerations(pv) ==
  LET t == last.input.tile[pv]
  IN IF IsReadWriteDataSpace(pv) THEN t.updates + t.fills
     ELSE t.reads + t.fills

C26_AddrGenEnergy ==
  Computed =>
    \A pv \in DataSpaces :
      /\ stats.address_generations[pv] = C26_AddressGenerations(pv)
      /\ stats.addr_gen_energy[pv]
           = RMul(RInt(C26_AddressGenerations(pv)),
                  IF RLeq(RZero, specs0.addr_gen_energy)
                  THEN specs0.addr_gen_energy
                  ELSE AdderEnergy(specs.addr_gen_bits, specs.addr_gen_bits))

\* an override of 0 on a level with 2 address bits: addresses are
\* generated and cost nothing
C26_OverrideOfZero ==
  /\ Computed
  /\ specs0.addr_gen_energy = RZero
  /\ specs.addr_gen_bits = 2
  /\ \E pv \in DataSpaces :
       /\ stats.address_generations[pv] > 0
       /\ stats.addr_gen_energy[pv] = RZero

\* ------------------------------------------------------------------------
\* C27: every Specification Record that ParseSpecs returns with technology
\* DRAM has cluster_size = 1 and a storage area of 0, whatever else is
\* configured, a cluster-area and a width included.
\* ------------------------------------------------------------------------

C27_ReturnedDRAM ==
  /\ last.op = "ParseSpecs"
  /\ last.outcome = "ok"
  /\ specs.technology = "DRAM"

C27_DRAMShape ==
  C27_ReturnedDRAM =>
    /\ specs.cluster_size = 1
    /\ specs.storage_area = RZero

\* ------------------------------------------------------------------------
\* C28: on a level with a finite effective_size the shares allocated to the
\* tensors of one Evaluate call add up to at most effective_size; the
\* share of a tensor is effective_size * (tile size + equivalent metadata
\* at the expected density) / total_tile_size, and when total_tile_size
\* is 0 each tensor is allocated the whole effective_size.  Shares are
\* allocated to the compressed tensors without a user confidence knob.
\* ------------------------------------------------------------------------

C28_Shared == {pv \in DataSpaces :
                 /\ last.input.tile[pv].compressed
                 /\ ~last.input.tile[pv].tile_density.user_defined_knob}

\* tile size + equivalent metadata size at the expected density
C28_Weight(pv) ==
  LET t == last.input.tile[pv]
  IN t.size
     + RCeil(Rat(GetMetaDataTileSize(t, t.tile_density.expected)
                   * specs.metadata_word_bits,
                 specs.word_bits))

RECURSIVE C28_SumOfShares(_)
C28_SumOfShares(n) ==
  IF n = 0 THEN 0
  ELSE C28_SumOfShares(n - 1)
       + (IF n \in C28_Shared THEN last.path[n].allocated ELSE 0)

RECURSIVE C28_TotalWeight(_)
C28_TotalWeight(n) ==
  IF n = 0 THEN 0 ELSE C28_TotalWeight(n - 1) + C28_Weight(n)

C28_SharesWithinEffectiveSize ==
  (last.op = "Evaluate" /\ specs0.effective_size # Unspecified) =>
    IF C28_TotalWeight(NumDataSpaces) = 0
    THEN \A pv \in C28_Shared :
           last.path[pv].allocated = specs0.effective_size
    ELSE /\ \A pv \in C28_Shared :
              last.path[pv].allocated
                = (specs0.effective_size * C28_Weight(pv))
                    \div C28_TotalWeight(NumDataSpaces)
         /\ C28_SumOfShares(NumDataSpaces) <= specs0.effective_size

\* two compressed tensors whose shares, both rounded down, leave a word of
\* the level unallocated
C28_TwoSharesRoundedDown ==
  /\ last.op = "Evaluate"
  /\ specs0.effective_size # Unspecified
  /\ C28_Shared = DataSpaces
  /\ \A pv \in DataSpaces : last.path[pv].allocated > 0
  /\ C28_SumOfShares(NumDataSpaces) = specs0.effective_size - 1

\* ------------------------------------------------------------------------
\* C29: after ComputePerformance the realized bandwidth respects every
\* specified cap: the realized read bandwidths of the tensors add up to at
\* most read_bandwidth when a read cap is specified, the realized write
\* bandwidths to at most write_bandwidth when a write cap is specified,
\* and each tensor's realized read and write bandwidth is its
\* unconstrained demand times the one slowdown.
\* ------------------------------------------------------------------------

C29_WithinCap(realized, cap) ==
  cap # RUnspecified => RLeq(RSumOver(realized, NumDataSpaces), cap)

C29_Scaled ==
  \A pv \in DataSpaces :
    /\ stats.read_bandwidth[pv]
         = RMul(stats.slowdown,
                Rat(last.input.tile[pv].reads, last.input.compute_cycles))
    /\ stats.write_bandwidth[pv]
         = RMul(stats.slowdown,
                Rat(last.input.tile[pv].updates + last.input.tile[pv].fills,
                    last.input.compute_cycles))

C29_RealizedBandwidthWithinCaps ==
  Computed =>
    /\ C29_WithinCap(stats.read_bandwidth, specs.read_bandwidth)
    /\ C29_WithinCap(stats.write_bandwidth, specs.write_bandwidth)
    /\ C29_Scaled

\* ------------------------------------------------------------------------
\* C30: the capacity handed to the density model while a compressed size is
\* estimated never wraps around: the unsigned differences
\* (allocated share - equivalent metadata) of the first estimate and
\* (allocated share - equivalent metadata - 1) of the retry are formed with
\* a subtrahend that is at most the allocated share.
\* ------------------------------------------------------------------------

C30_CapacityNeverWraps ==
  last.op = "Evaluate" =>
    \A pv \in DataSpaces : ~last.path[pv].wrapped

====
